---- MODULE Spec2Model ----
\* Decision fusion (backend/api/app.py, combine_module_results) and honeypot
\* trap scoring (backend/api/modules/honeypot.py, _analyze_honeypots).
\*
\* Numbers.  The code computes with Python floats; the model computes the same
\* expressions exactly, in fixed point:
\*   scores and confidences   : units of 1/10000   (0.45 is 4500, 1.0 is 10000)
\*   weights of the fusion    : units of 1/100     (0.35 is 35)
\*   probabilities, thresholds: units of 1/1000000 (score * weight)
\* Rounding of the binary floating point representation is not modelled.
EXTENDS Integers, Sequences, FiniteSets, TLC

VARIABLES pc, ml_result, honeypot_result, fingerprint_result, final_decision,
          metadata, events, honeypot_results,
          request, all_results, final_prediction,
          canvas_signature_tracker, threads, submitted,
          model_loaded, scaler_loaded

vars == <<pc, ml_result, honeypot_result, fingerprint_result, final_decision,
          metadata, events, honeypot_results,
          request, all_results, final_prediction,
          canvas_signature_tracker, threads, submitted,
          model_loaded, scaler_loaded>>

\* the request body of /predict; the API gateway's responses and answer; the
\* shared FingerprintingModule and the requests running on it; the MLModelModule
service_vars == <<request, all_results, final_prediction,
                  canvas_signature_tracker, threads, submitted,
                  model_loaded, scaler_loaded>>

\* ---------------------------------------------------------------- bounds
ScoreSteps == 5
ConfSteps == 1
MaxTriggers == 3
MaxMalformed == 1
MaxTrail == 6
MaxFieldLen == 1
MaxEvents == 1

\* ------------------------------------------------------- Python values
\* A dict is a function from its keys to values; None is a value no dict equals.
None == [None |-> TRUE]

IsNone(d) == DOMAIN d = {"None"}

\* d[k]: raises when d is None or k is missing
Has(d, k) == (~IsNone(d)) /\ k \in DOMAIN d

\* d.get(k, default)
Get(d, k, default) == IF k \in DOMAIN d THEN d[k] ELSE default

\* a dict without key k
Drop(d, k) == [x \in (DOMAIN d) \ {k} |-> d[x]]

EmptyDict == [x \in {} |-> TRUE]

\* Python bool used as a number
B2I(b) == IF b THEN 1 ELSE 0

Min(a, b) == IF a < b THEN a ELSE b

Abs(a) == IF a < 0 THEN 0 - a ELSE a

\* x in list
InList(x, l) == \E i \in DOMAIN l : l[i] = x

\* ------------------------------------------------------------ constants
ScoreUnit == 10000
ProbOne == 1000000

honeypot_weight == 45
ml_weight == 35
fingerprint_weight == 20
BonusPerTrigger == 150000
ml_confidence_default == 5000

BaseThreshold == 400000
MultiTriggerThreshold == 100000
SingleTriggerThreshold == 250000
WebdriverThreshold == 200000
HighRiskThreshold == 300000
HighRiskScore == 8000
RiskHighCut == 700000
RiskMediumCut == 400000

FailBotProbability == 900000
FailConfidence == 800000

\* ------------------------------------------------ combine_module_results
\* The text of the exception the extraction of the producers' fields raises,
\* "" when none is raised.  Evaluation order as in the code.
NoError == ""
AttributeErrorGet == "'NoneType' object has no attribute 'get'"
TypeErrorSubscript == "'NoneType' object is not subscriptable"

\* d[k] on a possibly-None, possibly-incomplete dict: the exception text or ""
SubscriptError(d, k) ==
    IF IsNone(d) THEN TypeErrorSubscript
    ELSE IF k \notin DOMAIN d THEN "'" \o k \o "'"
    ELSE NoError

\* d.get(k, ...) on a possibly-None dict
GetError(d) == IF IsNone(d) THEN AttributeErrorGet ELSE NoError

\* the first non-empty error text of a sequence of checks
RECURSIVE FirstError(_)
FirstError(errs) ==
    IF errs = <<>> THEN NoError
    ELSE IF Head(errs) # NoError THEN Head(errs)
    ELSE FirstError(Tail(errs))

ExtractionChecks(ml, hp, fp) ==
    LET e1 == GetError(ml)
        e2 == SubscriptError(hp, "honeypot_verdict")
        e3 == IF e2 = NoError THEN SubscriptError(hp.honeypot_verdict, "is_bot") ELSE NoError
        e4 == IF e2 = NoError /\ e3 = NoError
              THEN SubscriptError(hp.honeypot_verdict, "confidence") ELSE NoError
        e5 == SubscriptError(fp, "verdict")
        e6 == IF e5 = NoError THEN SubscriptError(fp.verdict, "is_suspicious") ELSE NoError
        e7 == IF e5 = NoError THEN SubscriptError(fp, "analysis") ELSE NoError
        e8 == IF e5 = NoError /\ e7 = NoError THEN GetError(fp.analysis) ELSE NoError
        e9 == IF e5 = NoError /\ e6 = NoError
              THEN SubscriptError(fp.verdict, "confidence") ELSE NoError
        e10 == IF e2 = NoError /\ Has(hp, "honeypot_summary")
               THEN GetError(hp.honeypot_summary) ELSE NoError
    IN <<e1, e2, e3, e4, e5, e6, e7, e8, e9, e10>>

FusionError(ml, hp, fp) == FirstError(ExtractionChecks(ml, hp, fp))

\* lines 302-306: the weighted term
WeightedProbabilityUngated(ml_bot, ml_confidence, fingerprint_bot_likely, fingerprint_risk_score, honeypot_bot, honeypot_confidence) ==
      (ml_confidence * ml_weight)
    + (fingerprint_risk_score * fingerprint_weight)
    + (honeypot_confidence * honeypot_weight)

WeightedProbabilityInverted(ml_bot, ml_confidence, fingerprint_bot_likely, fingerprint_risk_score, honeypot_bot, honeypot_confidence) ==
      (B2I(ml_bot) * (ScoreUnit - ml_confidence) * ml_weight)
    + (B2I(fingerprint_bot_likely) * fingerprint_risk_score * fingerprint_weight)
    + (B2I(honeypot_bot) * honeypot_confidence * honeypot_weight)

WeightedProbability(ml_bot, ml_confidence, fingerprint_bot_likely, fingerprint_risk_score, honeypot_bot, honeypot_confidence) ==
      (B2I(ml_bot) * ml_confidence * ml_weight)
    + (B2I(fingerprint_bot_likely) * fingerprint_risk_score * fingerprint_weight)
    + (B2I(honeypot_bot) * honeypot_confidence * honeypot_weight)

\* lines 312-315: the honeypot trigger bonus
HoneypotBonusMultiOnly(triggered_honeypots) ==
    IF triggered_honeypots > 1 THEN triggered_honeypots * BonusPerTrigger ELSE 0

HoneypotBonus(triggered_honeypots) ==
    IF triggered_honeypots > 0 THEN triggered_honeypots * BonusPerTrigger ELSE 0

\* line 319: cap at 1.0
CapProbabilityNone(p) == p

CapProbability(p) == Min(p, ProbOne)

\* lines 322-326
CombinedConfidence(ml_confidence, fingerprint_confidence, honeypot_confidence) ==
      (ml_confidence * ml_weight)
    + (fingerprint_confidence * fingerprint_weight)
    + (honeypot_confidence * honeypot_weight)

\* lines 329-346: the adaptive threshold
DecisionThresholdOverwrite(triggered_honeypots, high_risk_indicators, fingerprint_risk_score) ==
    LET t1 == IF triggered_honeypots >= 2 THEN MultiTriggerThreshold
              ELSE IF triggered_honeypots = 1 THEN SingleTriggerThreshold
              ELSE BaseThreshold
    IN IF InList("webdriver_detected", high_risk_indicators) THEN WebdriverThreshold
       ELSE IF fingerprint_risk_score > HighRiskScore THEN HighRiskThreshold
       ELSE t1

DecisionThresholdRising(triggered_honeypots, high_risk_indicators, fingerprint_risk_score) ==
    LET t1 == IF triggered_honeypots >= 2 THEN BaseThreshold + MultiTriggerThreshold
              ELSE IF triggered_honeypots = 1 THEN SingleTriggerThreshold
              ELSE BaseThreshold
    IN IF InList("webdriver_detected", high_risk_indicators) THEN Min(t1, WebdriverThreshold)
       ELSE IF fingerprint_risk_score > HighRiskScore THEN Min(t1, HighRiskThreshold)
       ELSE t1

DecisionThreshold(triggered_honeypots, high_risk_indicators, fingerprint_risk_score) ==
    LET t1 == IF triggered_honeypots >= 2 THEN MultiTriggerThreshold
              ELSE IF triggered_honeypots = 1 THEN SingleTriggerThreshold
              ELSE BaseThreshold
    IN IF InList("webdriver_detected", high_risk_indicators) THEN Min(t1, WebdriverThreshold)
       ELSE IF fingerprint_risk_score > HighRiskScore THEN Min(t1, HighRiskThreshold)
       ELSE t1

\* line 348
IsBotNonStrict(bot_probability, decision_threshold) == bot_probability >= decision_threshold

IsBot(bot_probability, decision_threshold) == bot_probability > decision_threshold

\* lines 351-356
RiskLevel(bot_probability) ==
    IF bot_probability > RiskHighCut THEN "high"
    ELSE IF bot_probability > RiskMediumCut THEN "medium"
    ELSE "low"

\* line 363
RecommendationByRisk(is_bot, risk_level) == IF risk_level = "high" THEN "block" ELSE "allow"

Recommendation(is_bot, risk_level) == IF is_bot THEN "block" ELSE "allow"

\* line 372
RECURSIVE CountHighRisk(_)
CountHighRisk(l) ==
    IF l = <<>> THEN 0
    ELSE (IF Head(l) \in {"webdriver_detected", "no_plugins", "no_mime_types"} THEN 1 ELSE 0)
         + CountHighRisk(Tail(l))

\* lines 379-388: the verdict of the except branch
FailClosedVerdictCertain(error) ==
    [is_bot |-> TRUE, confidence |-> FailConfidence, bot_probability |-> ProbOne,
     risk_level |-> "high", recommendation |-> "block",
     decision_logic |-> [kind |-> "combination_error", error |-> error]]

FailOpenVerdict(error) ==
    [is_bot |-> FALSE, confidence |-> FailConfidence, bot_probability |-> FailBotProbability,
     risk_level |-> "high", recommendation |-> "allow",
     decision_logic |-> [kind |-> "combination_error", error |-> error]]

FailClosedVerdict(error) ==
    [is_bot |-> TRUE, confidence |-> FailConfidence, bot_probability |-> FailBotProbability,
     risk_level |-> "high", recommendation |-> "block",
     decision_logic |-> [kind |-> "combination_error", error |-> error]]

\* lines 308-310
TriggeredHoneypots(hp) ==
    Get(Get(hp, "honeypot_summary", EmptyDict), "triggered_honeypots", 0)

\* lines 302-316: bot_probability before the cap
RawBotProbability(ml, hp, fp) ==
    WeightedProbability(Get(ml, "bot", FALSE), Get(ml, "confidence", ml_confidence_default),
                        Get(fp.analysis, "is_bot_likely", FALSE), Get(fp.analysis, "risk_score", 0),
                        hp.honeypot_verdict.is_bot, hp.honeypot_verdict.confidence)
    + HoneypotBonus(TriggeredHoneypots(hp))

\* lines 282-377: the try branch
NormalVerdict(ml, hp, fp) ==
    LET ml_bot == Get(ml, "bot", FALSE)
        ml_confidence == Get(ml, "confidence", ml_confidence_default)
        honeypot_bot == hp.honeypot_verdict.is_bot
        honeypot_confidence == hp.honeypot_verdict.confidence
        fingerprint_bot_likely == Get(fp.analysis, "is_bot_likely", FALSE)
        fingerprint_confidence == fp.verdict.confidence
        fingerprint_risk_score == Get(fp.analysis, "risk_score", 0)
        triggered_honeypots == TriggeredHoneypots(hp)
        bot_probability == CapProbability(RawBotProbability(ml, hp, fp))
        combined_confidence ==
            CombinedConfidence(ml_confidence, fingerprint_confidence, honeypot_confidence)
        high_risk_indicators == Get(fp.analysis, "risk_indicators", <<>>)
        decision_threshold ==
            DecisionThreshold(triggered_honeypots, high_risk_indicators, fingerprint_risk_score)
        is_bot == IsBot(bot_probability, decision_threshold)
        risk_level == RiskLevel(bot_probability)
    IN [is_bot |-> is_bot,
        confidence |-> combined_confidence,
        bot_probability |-> bot_probability,
        risk_level |-> risk_level,
        recommendation |-> Recommendation(is_bot, risk_level),
        decision_threshold |-> decision_threshold,
        contributing_factors |->
            [ml_model |-> [bot |-> ml_bot, confidence |-> ml_confidence, weight |-> ml_weight],
             fingerprinting |-> [bot_likely |-> fingerprint_bot_likely,
                                 risk_score |-> fingerprint_risk_score,
                                 confidence |-> fingerprint_confidence,
                                 weight |-> fingerprint_weight,
                                 high_risk_indicators |-> CountHighRisk(high_risk_indicators)],
             honeypot |-> [bot |-> honeypot_bot, confidence |-> honeypot_confidence,
                           weight |-> honeypot_weight]],
        decision_logic |-> [kind |-> "weighted_probability", probability |-> bot_probability,
                            threshold |-> decision_threshold, is_bot |-> is_bot]]

\* lines 279-388
combine_module_results(ml, hp, fp) ==
    LET error == FusionError(ml, hp, fp)
    IN IF error # NoError THEN FailClosedVerdict(error) ELSE NormalVerdict(ml, hp, fp)

\* ------------------------------------------------------- producer results
Scores == {(i * ScoreUnit) \div ScoreSteps : i \in 0..ScoreSteps}

Confidences == {(i * ScoreUnit) \div ConfSteps : i \in 0..ConfSteps}

IndicatorLists == {<<"no_plugins">>, <<"no_plugins", "webdriver_detected">>}

\* the fields of the producers' results that the fusion reads
MlWellFormed == [bot : BOOLEAN, confidence : Scores]

HoneypotWellFormed ==
    [honeypot_verdict : [is_bot : BOOLEAN, confidence : Scores],
     honeypot_summary : [triggered_honeypots : 0..MaxTriggers]]

FingerprintWellFormed ==
    [verdict : [is_suspicious : BOOLEAN, confidence : Confidences],
     analysis : [is_bot_likely : BOOLEAN, risk_score : Scores,
                 risk_indicators : IndicatorLists]]

\* results that are null or lack a field or a section
MlMalformed ==
    {None} \cup {Drop(r, "bot") : r \in MlWellFormed}
           \cup {Drop(r, "confidence") : r \in MlWellFormed}

HoneypotMalformed ==
    {None} \cup {Drop(r, "honeypot_verdict") : r \in HoneypotWellFormed}
           \cup {[r EXCEPT !.honeypot_verdict = Drop(@, "is_bot")] : r \in HoneypotWellFormed}
           \cup {[r EXCEPT !.honeypot_verdict = Drop(@, "confidence")] : r \in HoneypotWellFormed}
           \cup {Drop(r, "honeypot_summary") : r \in HoneypotWellFormed}
           \cup {[r EXCEPT !.honeypot_summary = None] : r \in HoneypotWellFormed}
           \cup {[r EXCEPT !.honeypot_summary = EmptyDict] : r \in HoneypotWellFormed}

FingerprintMalformed ==
    {None} \cup {Drop(r, "verdict") : r \in FingerprintWellFormed}
           \cup {Drop(r, "analysis") : r \in FingerprintWellFormed}
           \cup {[r EXCEPT !.verdict = Drop(@, "is_suspicious")] : r \in FingerprintWellFormed}
           \cup {[r EXCEPT !.verdict = Drop(@, "confidence")] : r \in FingerprintWellFormed}
           \cup {[r EXCEPT !.analysis = Drop(@, "is_bot_likely")] : r \in FingerprintWellFormed}
           \cup {[r EXCEPT !.analysis = Drop(@, "risk_score")] : r \in FingerprintWellFormed}
           \cup {[r EXCEPT !.analysis = Drop(@, "risk_indicators")] : r \in FingerprintWellFormed}

MalformedCount(ml, hp, fp) ==
    B2I(ml \in MlMalformed) + B2I(hp \in HoneypotMalformed) + B2I(fp \in FingerprintMalformed)

\* ------------------------------------------------------------ the machine
NoVerdict == [none |-> TRUE]

NoMetadata == [none |-> TRUE]

NoResults == [none |-> TRUE]

MaxThreads == 2

Threads == 1..MaxThreads

MaxSubmissions == 2

Init ==
    /\ pc = "idle"
    /\ ml_result = None
    /\ honeypot_result = None
    /\ fingerprint_result = None
    /\ final_decision = NoVerdict
    /\ metadata = NoMetadata
    /\ events = <<>>
    /\ honeypot_results = NoResults
    /\ request = None
    /\ all_results = EmptyDict
    /\ final_prediction = NoVerdict
    /\ canvas_signature_tracker = EmptyDict
    /\ threads = [t \in Threads |-> [pc |-> "idle", done |-> 0]]
    /\ submitted = {}
    /\ model_loaded = FALSE
    /\ scaler_loaded = FALSE

\* a caller hands three producer results to combine_module_results
Receive ==
    /\ pc = "idle"
    /\ \E ml \in MlWellFormed \cup MlMalformed,
          hp \in HoneypotWellFormed \cup HoneypotMalformed,
          fp \in FingerprintWellFormed \cup FingerprintMalformed :
            /\ MalformedCount(ml, hp, fp) <= MaxMalformed
            /\ ml_result' = ml
            /\ honeypot_result' = hp
            /\ fingerprint_result' = fp
    /\ pc' = "called"
    /\ UNCHANGED <<final_decision, metadata, events, honeypot_results>>
    /\ UNCHANGED service_vars

\* combine_module_results runs to its return
Combine ==
    /\ pc = "called"
    /\ final_decision' = combine_module_results(ml_result, honeypot_result, fingerprint_result)
    /\ pc' = "returned"
    /\ UNCHANGED <<ml_result, honeypot_result, fingerprint_result,
                   metadata, events, honeypot_results>>
    /\ UNCHANGED service_vars

NextFusion == Receive \/ Combine

SpecFusion == Init /\ [][NextFusion]_vars

\* --------------------------------------------- HoneypotModule (honeypot.py)
\* lines 25-31: honeypot_weights
HiddenFieldWeight == 2500
FakeSubmitWeight == 2500
OptionalFieldWeight == 2000
FocusOrderWeight == 1500
OffscreenMouseWeight == 1500
StrictScore == 10000
SecondaryBonus == 3000
NoInteractionBonus == 1000
MinFocusTrail == 6
RapidBackAndForthLimit == 3
ExtremeViolationLimit == 4
ExtremeJump == 4
HighThreat == 6000
MediumThreat == 3000

\* line 34
strict_mode == TRUE

PrimaryTrapsOverlapping == {"hidden_field", "fake_submit", "optional_field", "offscreen_mouse"}

PrimaryTraps == {"hidden_field", "fake_submit", "optional_field"}

SecondaryTraps == {"focus_order", "offscreen_mouse"}

\* str.strip() on a string given as a sequence of characters
RECURSIVE LStrip(_)
LStrip(s) == IF s # <<>> /\ Head(s) = " " THEN LStrip(Tail(s)) ELSE s

RECURSIVE RStrip(_)
RStrip(s) == IF s # <<>> /\ s[Len(s)] = " " THEN RStrip(SubSeq(s, 1, Len(s) - 1)) ELSE s

Strip(s) == RStrip(LStrip(s))

\* "value and value.strip()" as a condition
Filled(s) == s # <<>> /\ Strip(s) # <<>>

\* list.index(x): position of the first occurrence
IndexOf(l, x) == CHOOSE i \in DOMAIN l : l[i] = x /\ \A j \in 1..(i - 1) : l[j] # x

\* lines 175-191: the windows (i-2, i-1, i) of the focus trail whose three
\* fields all belong to the expected order
KnownWindows(focus_trail, expected_order) ==
    {i \in 3..Len(focus_trail) :
        \A f \in {focus_trail[i], focus_trail[i - 1], focus_trail[i - 2]} :
            InList(f, expected_order)}

RapidBackAndForth(focus_trail, expected_order) ==
    Cardinality({i \in KnownWindows(focus_trail, expected_order) :
        focus_trail[i] = focus_trail[i - 2] /\ focus_trail[i] # focus_trail[i - 1]})

ExtremeViolations(focus_trail, expected_order) ==
    Cardinality({i \in KnownWindows(focus_trail, expected_order) :
        Abs(IndexOf(expected_order, focus_trail[i])
            - IndexOf(expected_order, focus_trail[i - 1])) >= ExtremeJump})

\* lines 165-204
FocusOrderTriggered(focus_trail, expected_order) ==
    /\ Len(focus_trail) >= MinFocusTrail
    /\ Len(expected_order) > 0
    /\ \/ RapidBackAndForth(focus_trail, expected_order) >= RapidBackAndForthLimit
       \/ ExtremeViolations(focus_trail, expected_order) >= ExtremeViolationLimit

\* lines 126-216: which traps fired
TrapTriggered(md) ==
    [hidden_field |-> Filled(Get(md, "hidden_honeypot_field", <<>>)),
     fake_submit |-> Get(md, "fake_submit_clicked", FALSE),
     optional_field |-> (~Get(md, "js_enabled", TRUE))
                        /\ Filled(Get(md, "js_optional_field", <<>>)),
     focus_order |-> FocusOrderTriggered(Get(md, "focus_trail", <<>>),
                                         Get(md, "expected_focus_order", <<>>)),
     offscreen_mouse |-> Get(md, "offscreen_mouse_triggered", FALSE)]

\* the weights accumulated in total_score while the traps are evaluated
TrapWeightSum(t) ==
      (IF t.hidden_field THEN HiddenFieldWeight ELSE 0)
    + (IF t.fake_submit THEN FakeSubmitWeight ELSE 0)
    + (IF t.optional_field THEN OptionalFieldWeight ELSE 0)
    + (IF t.focus_order THEN FocusOrderWeight ELSE 0)
    + (IF t.offscreen_mouse THEN OffscreenMouseWeight ELSE 0)

\* the indicators appended while the traps are evaluated, in order
TrapIndicators(t) ==
       (IF t.hidden_field THEN <<"hidden_field_filled">> ELSE <<>>)
    \o (IF t.fake_submit THEN <<"fake_submit_clicked">> ELSE <<>>)
    \o (IF t.optional_field THEN <<"js_field_no_js">> ELSE <<>>)
    \o (IF t.focus_order THEN <<"extreme_bot_focus_pattern">> ELSE <<>>)
    \o (IF t.offscreen_mouse THEN <<"offscreen_mouse_decoy">> ELSE <<>>)

\* lines 230-241: strict mode and the secondary bonus
EscalatedScoreSummed(weight_sum, primary, secondary) ==
    IF primary = 0 /\ secondary > 0 THEN weight_sum + secondary * SecondaryBonus
    ELSE weight_sum

EscalatedScoreFlat(weight_sum, primary, secondary) ==
    IF strict_mode /\ primary > 0 THEN StrictScore
    ELSE IF secondary > 0 THEN weight_sum + SecondaryBonus
    ELSE weight_sum

EscalatedScoreAlwaysStrict(weight_sum, primary, secondary) ==
    IF strict_mode THEN StrictScore
    ELSE IF secondary > 0 THEN weight_sum + secondary * SecondaryBonus
    ELSE weight_sum

EscalatedScore(weight_sum, primary, secondary) ==
    IF strict_mode /\ primary > 0 THEN StrictScore
    ELSE IF secondary > 0 THEN weight_sum + secondary * SecondaryBonus
    ELSE weight_sum

\* line 249
CapScoreNone(score) == score

CapScore(score) == Min(score, StrictScore)

\* lines 108-265
analyze_honeypots(evs, md) ==
    LET t == TrapTriggered(md)
        primary == Cardinality({k \in PrimaryTraps : t[k]})
        secondary == Cardinality({k \in SecondaryTraps : t[k]})
        strict == strict_mode /\ primary > 0
        escalated == EscalatedScore(TrapWeightSum(t), primary, secondary)
        total_score == escalated + (IF Len(evs) = 0 THEN NoInteractionBonus ELSE 0)
    IN [total_score |-> CapScore(total_score),
        indicators |-> TrapIndicators(t)
                       \o (IF strict THEN <<"strict_primary_honeypot_enforcement">> ELSE <<>>)
                       \o (IF Len(evs) = 0 THEN <<"no_user_interaction">> ELSE <<>>),
        detailed_results |->
            [k \in PrimaryTraps \cup SecondaryTraps |->
                [triggered |-> t[k], score |-> IF t[k] THEN StrictScore ELSE 0]],
        honeypots_triggered |-> primary + secondary,
        primary_honeypots_triggered |-> primary,
        secondary_honeypots_triggered |-> secondary,
        analysis_summary |->
            [hidden_field_triggered |-> t.hidden_field,
             fake_submit_triggered |-> t.fake_submit,
             optional_field_triggered |-> t.optional_field,
             focus_order_triggered |-> t.focus_order,
             offscreen_mouse_triggered |-> t.offscreen_mouse,
             total_honeypot_score |-> total_score,
             threat_assessment |-> IF total_score >= HighThreat THEN "HIGH"
                                   ELSE IF total_score >= MediumThreat THEN "MEDIUM"
                                   ELSE "LOW",
             strict_mode_applied |-> primary > 0]]

\* ---------------------------------------------------- submissions (inputs)
RECURSIVE SeqsUpTo(_, _)
SeqsUpTo(S, n) ==
    IF n = 0 THEN {<<>>}
    ELSE LET shorter == SeqsUpTo(S, n - 1)
         IN shorter \cup {Append(q, x) : q \in {r \in shorter : Len(r) = n - 1}, x \in S}

FieldChars == {" ", "x"}

FieldValues == SeqsUpTo(FieldChars, MaxFieldLen)

FormFields == <<"name", "email", "phone", "address", "message">>

TrailFields == {"name", "message"}

FocusTrails == SeqsUpTo(TrailFields, MaxTrail)

ExpectedOrders == {<<>>, FormFields}

EventRecords == [event_name : {"mousemove", "keydown"}, timestamp : {0, 100}]

EventLists == SeqsUpTo(EventRecords, MaxEvents)

Metadatas ==
    [hidden_honeypot_field : FieldValues,
     fake_submit_clicked : BOOLEAN,
     js_optional_field : FieldValues,
     js_enabled : BOOLEAN,
     focus_trail : FocusTrails,
     expected_focus_order : ExpectedOrders,
     offscreen_mouse_triggered : BOOLEAN]

\* a form submission reaches the honeypot module
SubmitForm ==
    /\ pc = "idle"
    /\ \E md \in Metadatas, evs \in EventLists :
            /\ metadata' = md
            /\ events' = evs
    /\ pc' = "submitted"
    /\ UNCHANGED <<ml_result, honeypot_result, fingerprint_result, final_decision,
                   honeypot_results>>
    /\ UNCHANGED service_vars

\* _analyze_honeypots runs to its return
AnalyzeHoneypots ==
    /\ pc = "submitted"
    /\ honeypot_results' = analyze_honeypots(events, metadata)
    /\ pc' = "analyzed"
    /\ UNCHANGED <<ml_result, honeypot_result, fingerprint_result, final_decision,
                   metadata, events>>
    /\ UNCHANGED service_vars

NextHoneypot == SubmitForm \/ AnalyzeHoneypots

SpecHoneypot == Init /\ [][NextHoneypot]_vars

\* ------------------------------------------- HoneypotModule.analyze
\* lines 38-39
suspicious_threshold == 3000
CriticalThreat == 8000
InsufficientTimingScore == 2000
RapidScore == 3000
RegularScore == 2000
RapidAverage == 50
MinTimingEvents == 3
MinimalMovementScore == 3000
MinMovementEvents == 5
LinearScore == 4000
BotUserAgentScore == 5000
BaseConfidence == 5000
MaxConfidence == 9000
ErrorTotalScore == 5000
ErrorConfidence == 3000
TotalHoneypots == 5

\* values of the wrong type: None where a string is expected, a number where
\* a string is expected, and a timestamp that is not a number
NoneValue == <<"<None>">>

IntValue == <<"<int>">>

NotANumber == 0 - 1

IsNumber(t) == t # NotANumber

SeqRange(q) == {q[i] : i \in DOMAIN q}

RECURSIVE SeqSum(_)
SeqSum(q) == IF q = <<>> THEN 0 ELSE Head(q) + SeqSum(Tail(q))

\* lines 275-279
TimeDiffs(evs) ==
    [i \in 1..(Len(evs) - 1) |-> Get(evs[i + 1], "timestamp", 0) - Get(evs[i], "timestamp", 0)]

\* line 278: the subtraction raises on a timestamp that is not a number
TimingError(evs) ==
    IF Len(evs) >= MinTimingEvents
       /\ \E i \in 1..Len(evs) : ~IsNumber(Get(evs[i], "timestamp", 0))
    THEN "unsupported operand type(s) for -: 'str' and 'str'"
    ELSE NoError

\* lines 267-294
analyze_timing(evs) ==
    IF Len(evs) < MinTimingEvents
    THEN [score |-> InsufficientTimingScore, indicators |-> <<"insufficient_timing_data">>]
    ELSE LET time_diffs == TimeDiffs(evs)
             rapid == SeqSum(time_diffs) < RapidAverage * Len(time_diffs)
             regular == 10 * Cardinality(SeqRange(time_diffs)) < 3 * Len(time_diffs)
         IN [score |-> (IF rapid THEN RapidScore ELSE 0) + (IF regular THEN RegularScore ELSE 0),
             indicators |-> (IF rapid THEN <<"rapid_interactions">> ELSE <<>>)
                            \o (IF regular THEN <<"regular_timing">> ELSE <<>>)]

\* lines 296-319
analyze_movement(evs) ==
    LET IsMove(e) == Get(e, "event_name", "") = "mousemove"
        movement_events == SelectSeq(evs, IsMove)
        x_coords == {Get(movement_events[i], "x_position", 0) : i \in DOMAIN movement_events}
        y_coords == {Get(movement_events[i], "y_position", 0) : i \in DOMAIN movement_events}
        linear == Len(movement_events) > 3
                  /\ (Cardinality(x_coords) <= 2 \/ Cardinality(y_coords) <= 2)
    IN IF Len(movement_events) < MinMovementEvents
       THEN [score |-> MinimalMovementScore, indicators |-> <<"minimal_movement">>]
       ELSE [score |-> IF linear THEN LinearScore ELSE 0,
             indicators |-> IF linear THEN <<"linear_movement">> ELSE <<>>]

\* str.lower() on a string given as a sequence of characters
LowerCase ==
    [A |-> "a", B |-> "b", C |-> "c", D |-> "d", E |-> "e", F |-> "f", G |-> "g",
     H |-> "h", I |-> "i", J |-> "j", K |-> "k", L |-> "l", M |-> "m", N |-> "n",
     O |-> "o", P |-> "p", Q |-> "q", R |-> "r", S |-> "s", T |-> "t", U |-> "u",
     V |-> "v", W |-> "w", X |-> "x", Y |-> "y", Z |-> "z"]

Lower(s) == [i \in DOMAIN s |-> IF s[i] \in DOMAIN LowerCase THEN LowerCase[s[i]] ELSE s[i]]

\* sub in s
Contains(s, sub) ==
    \E i \in 1..(Len(s) - Len(sub) + 1) : SubSeq(s, i, i + Len(sub) - 1) = sub

\* line 328
BotIndicators ==
    {<<"b", "o", "t">>, <<"c", "r", "a", "w", "l", "e", "r">>,
     <<"s", "p", "i", "d", "e", "r">>, <<"a", "u", "t", "o", "m", "a", "t", "e", "d">>}

\* line 327: .lower() raises on a user agent that is None
MetadataError(md) ==
    IF Get(md, "user_agent", <<>>) = NoneValue
    THEN "'NoneType' object has no attribute 'lower'"
    ELSE NoError

\* lines 321-332
analyze_metadata(md) ==
    LET user_agent == Lower(Get(md, "user_agent", <<>>))
        bot == \E b \in BotIndicators : Contains(user_agent, b)
    IN [score |-> IF bot THEN BotUserAgentScore ELSE 0,
        indicators |-> IF bot THEN <<"bot_user_agent">> ELSE <<>>]

\* line 128: .strip() raises on a hidden field that is a number
HoneypotsError(md) ==
    IF Get(md, "hidden_honeypot_field", <<>>) = IntValue
    THEN "'int' object has no attribute 'strip'"
    ELSE NoError

\* lines 56-106: the first exception raised inside the try block, if any
AnalyzeError(evs, md) ==
    FirstError(<<HoneypotsError(md), TimingError(evs), MetadataError(md)>>)

\* lines 80-87
ThreatLevel(total_score) ==
    IF total_score >= CriticalThreat THEN "critical"
    ELSE IF total_score >= HighThreat THEN "high"
    ELSE IF total_score >= MediumThreat THEN "medium"
    ELSE "low"

\* line 347
VerdictConfidenceIsScore(total_score) == total_score

VerdictConfidence(total_score) == Min(MaxConfidence, BaseConfidence + (total_score * 4) \div 10)

\* lines 357-360, in the insertion order of detailed_results
TypesTriggered(detailed_results) ==
    LET order == <<"hidden_field", "fake_submit", "optional_field", "focus_order", "offscreen_mouse">>
        Fired(k) == detailed_results[k].triggered
    IN SelectSeq(order, Fired)

\* lines 334-371
create_enhanced_analysis_result(total_score, threat_level, threat_indicators, is_bot, hr) ==
    [analysis |-> [total_score |-> total_score,
                   honeypot_score |-> hr.total_score,
                   threat_level |-> threat_level,
                   threat_indicators |-> threat_indicators,
                   total_indicators |-> Len(threat_indicators)],
     honeypot_verdict |-> [is_bot |-> is_bot,
                           confidence |-> VerdictConfidence(total_score),
                           recommendation |-> IF threat_level \in {"critical", "high"} THEN "block"
                                              ELSE IF threat_level = "medium" THEN "monitor"
                                              ELSE "allow",
                           bot_probability |-> total_score],
     honeypot_results |-> hr,
     honeypot_summary |-> [total_honeypots |-> TotalHoneypots,
                           triggered_honeypots |-> hr.honeypots_triggered,
                           honeypot_score |-> hr.total_score,
                           detection_method |-> "multi_layer_honeypot_strict",
                           honeypot_types_triggered |-> TypesTriggered(hr.detailed_results),
                           strict_mode_enabled |-> strict_mode]]

\* lines 373-401
create_error_result_without_verdict(error_message) ==
    [analysis |-> [total_score |-> ErrorTotalScore, honeypot_score |-> 0,
                   threat_level |-> "medium", threat_indicators |-> <<"analysis_error">>,
                   error |-> error_message],
     honeypot_results |-> [total_score |-> 0, indicators |-> <<"analysis_error">>,
                           detailed_results |-> EmptyDict, honeypots_triggered |-> 0]]

create_error_result_with_summary(error_message) ==
    [analysis |-> [total_score |-> ErrorTotalScore, honeypot_score |-> 0,
                   threat_level |-> "medium", threat_indicators |-> <<"analysis_error">>,
                   error |-> error_message],
     honeypot_verdict |-> [is_bot |-> TRUE, confidence |-> ErrorConfidence,
                           recommendation |-> "monitor", bot_probability |-> ErrorTotalScore],
     honeypot_results |-> [total_score |-> 0, indicators |-> <<"analysis_error">>,
                           detailed_results |-> EmptyDict, honeypots_triggered |-> 0],
     honeypot_summary |-> [triggered_honeypots |-> 1]]

create_error_result(error_message) ==
    [analysis |-> [total_score |-> ErrorTotalScore, honeypot_score |-> 0,
                   threat_level |-> "medium", threat_indicators |-> <<"analysis_error">>,
                   error |-> error_message],
     honeypot_verdict |-> [is_bot |-> TRUE, confidence |-> ErrorConfidence,
                           recommendation |-> "monitor", bot_probability |-> ErrorTotalScore],
     honeypot_results |-> [total_score |-> 0, indicators |-> <<"analysis_error">>,
                           detailed_results |-> EmptyDict, honeypots_triggered |-> 0]]

\* line 74
TotalScore(honeypot_score, behavioral_score) ==
    (honeypot_score * 8 + behavioral_score * 2) \div 10

\* lines 45-106
analyze(evs, md) ==
    LET error == AnalyzeError(evs, md)
    IN IF error # NoError THEN create_error_result(error)
       ELSE LET hr == analyze_honeypots(evs, md)
                timing == analyze_timing(evs)
                movement == analyze_movement(evs)
                meta == analyze_metadata(md)
                behavioral_score == (timing.score + movement.score + meta.score) \div 10
                total_score == TotalScore(hr.total_score, behavioral_score)
                threat_indicators == hr.indicators \o timing.indicators
                                     \o movement.indicators \o meta.indicators
            IN create_enhanced_analysis_result(total_score, ThreatLevel(total_score),
                   threat_indicators, total_score >= suspicious_threshold, hr)

\* ------------------------------------------- the other two producers
FingerprintBaseConfidence == 3000
FingerprintHighRisk == 8000
FingerprintMediumRisk == 5000
FingerprintLowRisk == 3000
FingerprintBotLikely == 6000
FingerprintErrorScore == 5000
WebdriverRisk == 9000
MlPredictErrorConfidence == 8000
MlHeuristicErrorConfidence == 7000

\* fingerprinting.py lines 191-198
FingerprintRiskLevel(final_risk_score) ==
    IF final_risk_score >= FingerprintHighRisk THEN "high"
    ELSE IF final_risk_score >= FingerprintMediumRisk THEN "medium"
    ELSE IF final_risk_score >= FingerprintLowRisk THEN "low"
    ELSE "minimal"

\* fingerprinting.py lines 1124-1141
create_enhanced_fingerprint_result(risk_level, risk_indicators, risk_score, is_bot_likely) ==
    [analysis |-> [risk_level |-> risk_level,
                   risk_score |-> risk_score,
                   risk_indicators |-> risk_indicators,
                   is_bot_likely |-> is_bot_likely,
                   total_indicators |-> Len(risk_indicators)],
     verdict |-> [is_suspicious |-> risk_level \in {"medium", "high"},
                  recommendation |-> IF risk_level = "high" THEN "block"
                                     ELSE IF risk_level = "medium" THEN "monitor"
                                     ELSE "allow",
                  confidence |-> Min(MaxConfidence, FingerprintBaseConfidence + (risk_score * 6) \div 10),
                  bot_probability |-> risk_score]]

\* fingerprinting.py lines 216-218
FingerprintErrorResult ==
    create_enhanced_fingerprint_result("medium", <<"analysis_error">>, FingerprintErrorScore, TRUE)

\* fingerprinting.py lines 189-205
analyze_fingerprint(final_risk_score, risk_indicators) ==
    create_enhanced_fingerprint_result(FingerprintRiskLevel(final_risk_score), risk_indicators,
        final_risk_score, final_risk_score >= FingerprintBotLikely)

\* ml_model.py lines 315-326
MlPredictError ==
    [bot |-> TRUE, confidence |-> MlPredictErrorConfidence,
     model_status |-> "error", method |-> "error_fallback"]

\* ml_model.py predict_with_heuristics, its except branch
MlHeuristicError ==
    [bot |-> TRUE, confidence |-> MlHeuristicErrorConfidence,
     model_status |-> "error", method |-> "error_fallback"]

\* ------------------------------------------- inputs of the pipeline
PipelineSteps == 1
MaxPipelineEvents == 5

PipelineScores == {(i * ScoreUnit) \div PipelineSteps : i \in 0..PipelineSteps}

MlProduced ==
    [bot : BOOLEAN, confidence : PipelineScores,
     model_status : {"tensorflow_active"}, method : {"autoencoder_reconstruction"}]
    \cup {MlPredictError, MlHeuristicError}

\* fingerprinting.py lines 77-80: webdriver_detected comes with 0.9 of risk
FingerprintProduced ==
    {analyze_fingerprint(p[1], p[2]) :
        p \in {q \in PipelineScores \X IndicatorLists :
                  InList("webdriver_detected", q[2]) => q[1] >= WebdriverRisk}}
    \cup {FingerprintErrorResult}

TimingPatterns == {"fast", "slow", "bad"}

MovementPatterns == {"line", "curve", "keys"}

Stamp(timing, i) ==
    IF timing = "fast" THEN 10 * i ELSE IF timing = "slow" THEN 100 * i * i ELSE NotANumber

MakeEvents(n, timing, shape) ==
    [i \in 1..n |-> [event_name |-> IF shape = "keys" THEN "keydown" ELSE "mousemove",
                     timestamp |-> Stamp(timing, i),
                     x_position |-> i,
                     y_position |-> IF shape = "curve" THEN i * i ELSE 0]]

PipelineEvents ==
    {MakeEvents(n, timing, shape) :
        n \in 0..MaxPipelineEvents, timing \in TimingPatterns, shape \in MovementPatterns}

AlternatingTrail == <<"name", "message", "name", "message", "name", "message">>

\* app.py line 103: the header may be absent
UserAgents == {NoneValue, <<"M", "o", "z">>, <<"B", "o", "t">>}

PipelineMetadatas ==
    {[hidden_honeypot_field |-> hidden,
      fake_submit_clicked |-> fake,
      js_optional_field |-> IF js THEN <<>> ELSE <<"x">>,
      js_enabled |-> js,
      focus_trail |-> trail,
      expected_focus_order |-> FormFields,
      offscreen_mouse_triggered |-> offscreen,
      user_agent |-> ua] :
        hidden \in {<<>>, <<"x">>, IntValue}, fake \in BOOLEAN, js \in BOOLEAN,
        trail \in {<<>>, AlternatingTrail}, offscreen \in BOOLEAN, ua \in UserAgents}

\* ------------------------------------------- the pipeline of /predict
\* app.py lines 90-119: the request's events and metadata
SubmitRequest ==
    /\ pc = "idle"
    /\ \E evs \in PipelineEvents, md \in PipelineMetadatas :
        /\ events' = evs
        /\ metadata' = md
    /\ pc' = "request"
    /\ UNCHANGED <<ml_result, honeypot_result, fingerprint_result, final_decision, honeypot_results>>
    /\ UNCHANGED service_vars

\* app.py lines 126-132: the three producers
RunModules ==
    /\ pc = "request"
    /\ \E ml \in MlProduced, fp \in FingerprintProduced :
        /\ ml_result' = ml
        /\ fingerprint_result' = fp
    /\ honeypot_result' = analyze(events, metadata)
    /\ pc' = "called"
    /\ UNCHANGED <<final_decision, metadata, events, honeypot_results>>
    /\ UNCHANGED service_vars

NextPipeline == SubmitRequest \/ RunModules \/ Combine

SpecPipeline == Init /\ [][NextPipeline]_vars

\* ------------------------------------------- the /predict handler
\* dict.update
Update(d, e) == [k \in DOMAIN d \cup DOMAIN e |-> IF k \in DOMAIN e THEN e[k] ELSE d[k]]

\* app.py lines 111-119: the keys of honeypot_data that reach the metadata
ForwardedHoneypotData(honeypot_data) ==
    [hidden_honeypot_field |-> Get(honeypot_data, "hidden_honeypot_field", <<>>),
     fake_submit_clicked |-> Get(honeypot_data, "fake_submit_clicked", FALSE),
     js_optional_field |-> Get(honeypot_data, "js_optional_field", <<>>),
     js_enabled |-> Get(honeypot_data, "js_enabled", TRUE),
     honeypot_triggers |-> Get(honeypot_data, "honeypot_triggers", EmptyDict)]

\* app.py line 111
AddHoneypotData(md, honeypot_data) ==
    IF honeypot_data # EmptyDict THEN Update(md, ForwardedHoneypotData(honeypot_data)) ELSE md

\* app.py lines 93-119
build_metadata(req) ==
    LET honeypot_data == Get(req.data, "honeypot_data", EmptyDict)
        enhanced_metadata == Get(req.data, "metadata", EmptyDict)
        base == [ip_address |-> req.remote_addr,
                 user_agent |-> req.user_agent,
                 timestamp |-> "utcnow"]
    IN AddHoneypotData(Update(base, enhanced_metadata), honeypot_data)

\* the honeypot_data a form can send: absent, or the primary fields with or
\* without the reports of the secondary traps
SecondaryReports ==
    {EmptyDict,
     [offscreen_mouse_triggered |-> FALSE],
     [offscreen_mouse_triggered |-> TRUE],
     [focus_trail |-> AlternatingTrail, expected_focus_order |-> FormFields],
     [focus_trail |-> AlternatingTrail, expected_focus_order |-> FormFields,
      offscreen_mouse_triggered |-> TRUE]}

HoneypotDatas ==
    {EmptyDict}
    \cup {Update([hidden_honeypot_field |-> hidden, fake_submit_clicked |-> fake], reports) :
            hidden \in {<<>>, <<"x">>}, fake \in BOOLEAN, reports \in SecondaryReports}

EnhancedMetadatas == {EmptyDict, [offscreen_mouse_triggered |-> TRUE]}

PredictRequests ==
    {[remote_addr |-> "127.0.0.1",
      user_agent |-> ua,
      data |-> [events |-> evs, honeypot_data |-> hd, metadata |-> em]] :
        ua \in UserAgents,
        evs \in {MakeEvents(n, "slow", "curve") : n \in {0, MaxPipelineEvents}},
        hd \in HoneypotDatas,
        em \in EnhancedMetadatas}

\* app.py lines 76-99: a request reaches /predict
ReceivePredict ==
    /\ pc = "idle"
    /\ \E req \in PredictRequests : request' = req
    /\ pc' = "predict_received"
    /\ UNCHANGED <<ml_result, honeypot_result, fingerprint_result, final_decision,
                   metadata, events, honeypot_results>>
    /\ UNCHANGED <<all_results, final_prediction, canvas_signature_tracker, threads, submitted, model_loaded, scaler_loaded>>

\* app.py lines 101-132: the metadata is put together and the producers run
PredictModules ==
    /\ pc = "predict_received"
    /\ events' = Get(request.data, "events", <<>>)
    /\ metadata' = build_metadata(request)
    /\ \E ml \in MlProduced, fp \in FingerprintProduced :
        /\ ml_result' = ml
        /\ fingerprint_result' = fp
    /\ honeypot_result' = analyze(events', metadata')
    /\ pc' = "called"
    /\ UNCHANGED <<final_decision, honeypot_results>>
    /\ UNCHANGED service_vars

NextPredict == ReceivePredict \/ PredictModules \/ Combine

SpecPredict == Init /\ [][NextPredict]_vars

\* ------------------------------------------- the API gateway
GatewayDefaultConfidence == 5000
GatewayDefaultRisk == 5000
GatewayHighRisk == 7000
GatewayMediumRisk == 5000
FingerprintServiceBot == 7000

Max(a, b) == IF a > b THEN a ELSE b

\* api_gateway/app.py lines 23-49: what the gateway gets from a service
call_service(service_name, outcome, body) ==
    IF outcome = "ok" THEN body
    ELSE IF outcome = "timeout"
    THEN [error |-> <<"Service", service_name, "timeout">>, service |-> service_name]
    ELSE IF outcome = "unavailable"
    THEN [error |-> <<"Service", service_name, "unavailable">>, service |-> service_name]
    ELSE [error |-> <<"500 Server Error">>, service |-> service_name]

\* services/ml_model/service.py lines 300-353
MlServiceBodies ==
    {[prediction |-> [bot |-> b, confidence |-> c, reconstruction_error |-> e]] :
        b \in BOOLEAN, c \in PipelineScores, e \in PipelineScores}

\* services/honeypot/service.py lines 320-335
HoneypotServiceBodies ==
    {[analysis |-> [threat_level |-> level],
      honeypot_verdict |-> [is_bot |-> b, threat_level |-> level, confidence |-> c]] :
        level \in {"low", "medium", "high", "critical"}, b \in BOOLEAN, c \in PipelineScores}

\* services/fingerprinting/service.py lines 88-102
FingerprintServiceBodies ==
    {[risk_score |-> r,
      prediction |-> IF r > FingerprintServiceBot THEN "bot" ELSE "human",
      confidence |-> c] :
        r \in PipelineScores, c \in PipelineScores}

\* api_gateway/app.py lines 144-252: the try branch; nothing in it raises
combine_service_results(results) ==
    LET ml == Get(results, "ml_model", EmptyDict)
        ml_prediction == Get(ml, "prediction", EmptyDict)
        hp == Get(results, "honeypot", EmptyDict)
        honeypot_analysis == Get(hp, "analysis", EmptyDict)
        honeypot_verdict == Get(hp, "honeypot_verdict", EmptyDict)
        fp == Get(results, "fingerprinting", EmptyDict)
        ml_bot_detected == Get(ml_prediction, "bot", FALSE)
        honeypot_bot_detected == Get(honeypot_verdict, "is_bot", FALSE)
        fingerprint_bot_detected == Has(fp, "prediction") /\ fp.prediction = "bot"
        final_bot_prediction ==
            ml_bot_detected \/ honeypot_bot_detected \/ fingerprint_bot_detected
        combined_confidence ==
            (Get(ml_prediction, "confidence", GatewayDefaultConfidence)
             + Get(honeypot_verdict, "confidence", GatewayDefaultConfidence)
             + Get(fp, "confidence", GatewayDefaultConfidence)) \div 3
        combined_risk_score ==
            Max(Get(ml_prediction, "reconstruction_error", GatewayDefaultRisk),
                Get(fp, "risk_score", GatewayDefaultRisk))
        honeypot_threat == Get(honeypot_analysis, "threat_level", "low")
        risk_level ==
            IF honeypot_threat \in {"critical", "high"} \/ final_bot_prediction
               \/ combined_risk_score > GatewayHighRisk
            THEN "high"
            ELSE IF honeypot_threat = "medium" \/ combined_risk_score > GatewayMediumRisk
            THEN "medium"
            ELSE "low"
        Status(r) == IF Has(r, "error") THEN "failed" ELSE "success"
    IN [prediction |-> <<[bot |-> final_bot_prediction,
                          reconstruction_error |->
                              Get(ml_prediction, "reconstruction_error", combined_risk_score),
                          confidence |-> combined_confidence]>>,
        risk_score |-> combined_risk_score,
        enhanced_prediction |->
            [is_bot |-> final_bot_prediction,
             confidence |-> combined_confidence,
             risk_level |-> risk_level,
             risk_score |-> combined_risk_score,
             recommendation |-> IF final_bot_prediction THEN "block" ELSE "allow"],
        service_results |->
            [ml_model |-> [bot_detected |-> ml_bot_detected, status |-> Status(ml)],
             honeypot |-> [threat_detected |-> honeypot_bot_detected,
                           threat_level |-> honeypot_threat, status |-> Status(hp)],
             fingerprinting |-> [bot_detected |-> fingerprint_bot_detected,
                                 status |-> Status(fp)]]]

\* api_gateway/app.py lines 92-124: the three calls of the /predict handler
GatewayCalls ==
    /\ pc = "idle"
    /\ \E ml_outcome, hp_outcome, fp_outcome \in {"ok", "timeout", "unavailable", "http_error"} :
        \E ml_body \in MlServiceBodies, hp_body \in HoneypotServiceBodies,
           fp_body \in FingerprintServiceBodies :
            all_results' =
                [ml_model |-> call_service("ml_model", ml_outcome, ml_body),
                 honeypot |-> call_service("honeypot", hp_outcome, hp_body),
                 fingerprinting |-> call_service("fingerprinting", fp_outcome, fp_body)]
    /\ pc' = "gateway_called"
    /\ UNCHANGED <<ml_result, honeypot_result, fingerprint_result, final_decision,
                   metadata, events, honeypot_results>>
    /\ UNCHANGED <<final_prediction, request, canvas_signature_tracker, threads, submitted, model_loaded, scaler_loaded>>

\* api_gateway/app.py lines 126-134
GatewayCombine ==
    /\ pc = "gateway_called"
    /\ final_prediction' = combine_service_results(all_results)
    /\ pc' = "gateway_returned"
    /\ UNCHANGED <<ml_result, honeypot_result, fingerprint_result, final_decision,
                   metadata, events, honeypot_results>>
    /\ UNCHANGED <<all_results, request, canvas_signature_tracker, threads, submitted, model_loaded, scaler_loaded>>

NextGateway == GatewayCalls \/ GatewayCombine

SpecGateway == Init /\ [][NextGateway]_vars

\* ------------------------------------------- the canvas signature tracker
\* One FingerprintingModule serves every request of the Flask server, and
\* each request runs _analyze_canvas_signature on its own thread; a thread
\* can be preempted between any two of the steps below.
CanvasHashes == {"canvas_1", "canvas_2"}

Addresses == {"10.0.0.1", "10.0.0.2"}

Running(t, step) == threads[t].pc = step

Finish(t) == threads' = [threads EXCEPT ![t] = [pc |-> "idle", done |-> threads[t].done + 1]]

Step(t, step) == threads' = [threads EXCEPT ![t].pc = step]

\* fingerprinting.py lines 478-508: a request with a canvas fingerprint
StartCanvasAnalysis ==
    \E t \in Threads, h \in CanvasHashes, ip \in Addresses :
        /\ pc = "idle"
        /\ Running(t, "idle")
        /\ threads[t].done < MaxSubmissions
        /\ threads' = [threads EXCEPT ![t] =
                          [pc |-> "check", done |-> threads[t].done,
                           canvas_hash |-> h, ip_address |-> ip]]
        /\ submitted' = submitted \cup {<<h, ip>>}
        /\ UNCHANGED <<pc, ml_result, honeypot_result, fingerprint_result, final_decision,
                       metadata, events, honeypot_results>>
        /\ UNCHANGED <<canvas_signature_tracker, request, all_results, final_prediction, model_loaded, scaler_loaded>>

\* line 509: if canvas_hash in self.canvas_signature_tracker
CheckSignature ==
    \E t \in Threads :
        /\ Running(t, "check")
        /\ Step(t, IF threads[t].canvas_hash \in DOMAIN canvas_signature_tracker
                   THEN "found" ELSE "insert")
        /\ UNCHANGED <<pc, ml_result, honeypot_result, fingerprint_result, final_decision,
                       metadata, events, honeypot_results>>
        /\ UNCHANGED <<canvas_signature_tracker, submitted, request, all_results, final_prediction,
                       model_loaded, scaler_loaded>>

\* lines 510-511: existing_ips is the shared list; if ip_address not in it
TestAddress ==
    \E t \in Threads :
        /\ Running(t, "found")
        /\ IF InList(threads[t].ip_address, canvas_signature_tracker[threads[t].canvas_hash])
           THEN Finish(t)
           ELSE Step(t, "append")
        /\ UNCHANGED <<pc, ml_result, honeypot_result, fingerprint_result, final_decision,
                       metadata, events, honeypot_results>>
        /\ UNCHANGED <<canvas_signature_tracker, submitted, request, all_results, final_prediction,
                       model_loaded, scaler_loaded>>

\* line 512: existing_ips.append(ip_address)
AppendAddress ==
    \E t \in Threads :
        /\ Running(t, "append")
        /\ canvas_signature_tracker' =
              [canvas_signature_tracker EXCEPT ![threads[t].canvas_hash] =
                  Append(@, threads[t].ip_address)]
        /\ Finish(t)
        /\ UNCHANGED <<pc, ml_result, honeypot_result, fingerprint_result, final_decision,
                       metadata, events, honeypot_results>>
        /\ UNCHANGED <<submitted, request, all_results, final_prediction, model_loaded, scaler_loaded>>

\* line 519: self.canvas_signature_tracker[canvas_hash] = [ip_address]
InsertSignature ==
    \E t \in Threads :
        /\ Running(t, "insert")
        /\ canvas_signature_tracker' =
              [h \in DOMAIN canvas_signature_tracker \cup {threads[t].canvas_hash} |->
                  IF h = threads[t].canvas_hash THEN <<threads[t].ip_address>>
                  ELSE canvas_signature_tracker[h]]
        /\ Finish(t)
        /\ UNCHANGED <<pc, ml_result, honeypot_result, fingerprint_result, final_decision,
                       metadata, events, honeypot_results>>
        /\ UNCHANGED <<submitted, request, all_results, final_prediction, model_loaded, scaler_loaded>>

NextTracker ==
    StartCanvasAnalysis \/ CheckSignature \/ TestAddress \/ AppendAddress \/ InsertSignature

SpecTracker == Init /\ [][NextTracker]_vars

\* ------------------------------------------- the ML module (ml_model.py)
\* features are in tenths, heuristic scores in hundredths, raw errors in units of 1
threshold == 500
max_threshold == 1500
HeuristicBaseScore == 30
HighSpeedMean == 30
ConsistentSpeedStd == 10
HighAccelerationMean == 50
StraightAngleStd == 100
IndicatorScore == 30
NoMovementScore == 50
PerfectConsistencyScore == 40
PerturbationDown == 5
PerturbationUp == 10
MinBotScore == 20
MaxBotScore == 100
RawErrorBase == 300
RawErrorCentre == 50
RawErrorPerHundredth == 4

PerturbationSteps == 3

\* line 220: random.uniform(-0.05, 0.1), on a grid
Perturbations ==
    {((PerturbationUp + PerturbationDown) * i) \div PerturbationSteps - PerturbationDown :
        i \in 0..PerturbationSteps}

\* lines 57-62: fewer than two events give the zero features
ZeroFeatures ==
    [speed_mean |-> 0, speed_std |-> 0, acceleration_mean |-> 0, angle_diff_std |-> 0]

\* lines 88-95: the summary of the movement, around the cuts of the heuristic
MeasuredFeatures ==
    [speed_mean : {0, HighSpeedMean, HighSpeedMean + 1},
     speed_std : {0, ConsistentSpeedStd - 1, ConsistentSpeedStd},
     acceleration_mean : {0 - (HighAccelerationMean + 1), 0, HighAccelerationMean},
     angle_diff_std : {0, StraightAngleStd - 1, StraightAngleStd}]

\* lines 55-97
extract_features(evs, measured) == IF Len(evs) < 2 THEN ZeroFeatures ELSE measured

\* lines 194-218: the reasons, in the order of the code
HeuristicReasons(speed_mean, speed_std, accel_mean, angle_std) ==
    (IF speed_mean > HighSpeedMean THEN <<"high_speed">> ELSE <<>>)
    \o (IF speed_std < ConsistentSpeedStd THEN <<"consistent_speed">> ELSE <<>>)
    \o (IF accel_mean > HighAccelerationMean THEN <<"high_acceleration">> ELSE <<>>)
    \o (IF angle_std < StraightAngleStd THEN <<"straight_movement">> ELSE <<>>)
    \o (IF speed_mean = 0 /\ accel_mean = 0 THEN <<"no_movement">> ELSE <<>>)
    \o (IF speed_std = 0 THEN <<"perfect_consistency">> ELSE <<>>)

\* lines 195-217: what each reason adds to bot_score
ReasonScore(reason) ==
    IF reason = "no_movement" THEN NoMovementScore
    ELSE IF reason = "perfect_consistency" THEN PerfectConsistencyScore
    ELSE IndicatorScore

\* line 221: max(0.2, min(1, bot_score))
ClampBotScore(bot_score) == Max(MinBotScore, Min(MaxBotScore, bot_score))

\* line 227: raw_error = 300 + (0.5 - bot_score) * 400
RawErrorNotInverted(bot_score) ==
    RawErrorBase + (bot_score - RawErrorCentre) * RawErrorPerHundredth

RawError(bot_score) == RawErrorBase + (RawErrorCentre - bot_score) * RawErrorPerHundredth

\* lines 232-243: |display_error - threshold_display| / threshold_display, capped at 1,
\* with display = 1 - clip(raw / 1500, 0, 1); in units of 1/10000
DisplayConfidence(raw_error) ==
    Min(ScoreUnit,
        (Abs(Max(0, Min(max_threshold, threshold)) - Max(0, Min(max_threshold, raw_error)))
         * ScoreUnit) \div (max_threshold - Max(0, Min(max_threshold, threshold))))

\* lines 171-276
predict_with_heuristics(features, perturbation) ==
    LET speed_mean == features.speed_mean
        speed_std == features.speed_std
        accel_mean == Abs(features.acceleration_mean)
        angle_std == features.angle_diff_std
        reasons == HeuristicReasons(speed_mean, speed_std, accel_mean, angle_std)
        summed == HeuristicBaseScore
                  + SeqSum([i \in 1..Len(reasons) |-> ReasonScore(reasons[i])])
                  + perturbation
        bot_score == ClampBotScore(summed)
        raw_error == RawError(bot_score)
    IN [bot |-> raw_error < threshold,
        confidence |-> DisplayConfidence(raw_error),
        model_status |-> "heuristic_fallback",
        method |-> "heuristic_analysis",
        bot_indicators |-> reasons,
        heuristic_details |-> [speed_mean |-> speed_mean, speed_std |-> speed_std,
                               acceleration_mean |-> accel_mean, angle_std |-> angle_std,
                               bot_score |-> bot_score],
        processing_details |-> [raw_reconstruction_error |-> raw_error,
                                threshold_raw |-> threshold]]

\* lines 111-126 and 140-165: the autoencoder's reconstruction error decides
TensorflowResult(raw_error) ==
    [bot |-> raw_error < threshold,
     confidence |-> DisplayConfidence(raw_error),
     model_status |-> "tensorflow_active",
     method |-> "autoencoder_reconstruction",
     processing_details |-> [raw_reconstruction_error |-> raw_error,
                             threshold_raw |-> threshold]]

\* lines 99-169: a reconstruction error, or the except branch
predict_with_tensorflow(features, raw_error, raises, perturbation) ==
    IF raises THEN predict_with_heuristics(features, perturbation)
    ELSE TensorflowResult(raw_error)

\* lines 297-326; extracted is "raises" when extract_features fails
predict(evs, measured, extracted, raw_error, raises, perturbation) ==
    IF extracted = "raises" THEN MlPredictError
    ELSE IF model_loaded /\ scaler_loaded
         THEN predict_with_tensorflow(extract_features(evs, measured), raw_error, raises,
                                      perturbation)
         ELSE predict_with_heuristics(extract_features(evs, measured), perturbation)

\* lines 25-53: the model and the scaler are found and loaded, both or neither
LoadTensorflowModel ==
    /\ pc = "idle"
    /\ ~model_loaded
    /\ model_loaded' = TRUE
    /\ scaler_loaded' = TRUE
    /\ UNCHANGED <<pc, ml_result, honeypot_result, fingerprint_result, final_decision,
                   metadata, events, honeypot_results>>
    /\ UNCHANGED <<request, all_results, final_prediction, canvas_signature_tracker, threads, submitted>>

\* lines 297-313: one call of predict
MlPredict ==
    /\ pc = "idle"
    /\ \E evs \in {MakeEvents(n, "fast", "line") : n \in 0..2},
          measured \in MeasuredFeatures, extracted \in {"ok", "raises"},
          raw_error \in {0, threshold - 1, threshold, max_threshold, max_threshold + threshold},
          raises \in BOOLEAN,
          perturbation \in Perturbations :
        /\ events' = evs
        /\ ml_result' = predict(evs, measured, extracted, raw_error, raises, perturbation)
    /\ pc' = "ml_predicted"
    /\ UNCHANGED <<honeypot_result, fingerprint_result, final_decision, metadata,
                   honeypot_results>>
    /\ UNCHANGED service_vars

NextMl == LoadTensorflowModel \/ MlPredict

SpecMl == Init /\ [][NextMl]_vars

\* ------------------------------------------- analyze_fingerprint as a whole
\* risks are in units of 1/10000, timings in milliseconds
HeadlessRisk == 8500
SingleZeroRisk == 4000
UniformTimingRisk == 4000
UniformTimingSpread == 5
MinPatternTimings == 3
MinVarianceTimings == 2

\* fingerprinting.py lines 753-758
AllTimings(browser_fingerprint) ==
    <<Get(browser_fingerprint, "canvas_render_time", 0),
      Get(browser_fingerprint, "webgl_render_time", 0),
      Get(browser_fingerprint, "plugin_enum_time", 0),
      Get(browser_fingerprint, "font_enum_time", 0)>>

\* line 761: valid_timings = [t for t in all_timings if t > 0]
ValidTimings(browser_fingerprint) == SelectSeq(AllTimings(browser_fingerprint), LAMBDA t : t > 0)

\* lines 763-765 and 820: timing_variance is bound only under len(valid_timings) >= 3
\* and is read under len(valid_timings) >= 2
AdvancedPatternsErrorNone(browser_fingerprint) == FALSE

AdvancedPatternsError(browser_fingerprint) ==
    /\ Len(ValidTimings(browser_fingerprint)) >= MinVarianceTimings
    /\ ~(Len(ValidTimings(browser_fingerprint)) >= MinPatternTimings)

\* lines 763-769: the timing pattern
UniformTiming(browser_fingerprint) ==
    LET valid_timings == ValidTimings(browser_fingerprint)
        max == CHOOSE x \in SeqRange(valid_timings) : \A y \in SeqRange(valid_timings) : y <= x
        min == CHOOSE x \in SeqRange(valid_timings) : \A y \in SeqRange(valid_timings) : x <= y
    IN /\ Len(valid_timings) >= MinPatternTimings
       /\ max - min < UniformTimingSpread

\* lines 747-822; other_patterns stands for the checks of the enumeration order,
\* the timestamp and the submission rate (771-805)
analyze_advanced_patterns(browser_fingerprint, other_patterns) ==
    [risk_score |-> Min(ScoreUnit,
                        (IF UniformTiming(browser_fingerprint) THEN UniformTimingRisk ELSE 0)
                        + other_patterns.risk_score),
     indicators |-> (IF UniformTiming(browser_fingerprint)
                     THEN <<"uniform_timing_pattern">> ELSE <<>>)
                    \o other_patterns.indicators]

\* lines 83-94
ZeroFeatureNames(browser_fingerprint) ==
    (IF Get(browser_fingerprint, "plugins_count", 0) = 0 THEN <<"plugins">> ELSE <<>>)
    \o (IF Get(browser_fingerprint, "mime_types_count", 0) = 0 THEN <<"mime_types">> ELSE <<>>)
    \o (IF Get(browser_fingerprint, "fonts_count", 0) = 0 THEN <<"fonts">> ELSE <<>>)

\* lines 97-104
ZeroFeatureAnalysis(zero_features) ==
    IF Len(zero_features) >= 2
    THEN [risk_score |-> HeadlessRisk,
          indicators |-> <<IF Len(zero_features) = 2 THEN "headless_pattern_2_zero_features"
                           ELSE "headless_pattern_3_zero_features">>]
    ELSE IF Len(zero_features) = 1
    THEN [risk_score |-> SingleZeroRisk,
          indicators |-> <<IF zero_features[1] = "plugins" THEN "single_zero_feature_plugins"
                           ELSE IF zero_features[1] = "mime_types"
                           THEN "single_zero_feature_mime_types"
                           ELSE "single_zero_feature_fonts">>]
    ELSE [risk_score |-> 0, indicators |-> <<>>]

\* lines 76-80
WebdriverAnalysis(browser_fingerprint) ==
    IF Get(browser_fingerprint, "webdriver_detected", FALSE)
    THEN [risk_score |-> WebdriverRisk, indicators |-> <<"webdriver_detected">>]
    ELSE [risk_score |-> 0, indicators |-> <<>>]

\* lines 59-218; other_analyses stands for the steps 3 to 10 and the IP analysis
analyze_fingerprint_request(browser_fingerprint, other_analyses, other_patterns) ==
    IF AdvancedPatternsError(browser_fingerprint) THEN FingerprintErrorResult
    ELSE LET webdriver == WebdriverAnalysis(browser_fingerprint)
             zero == ZeroFeatureAnalysis(ZeroFeatureNames(browser_fingerprint))
             pattern_analysis == analyze_advanced_patterns(browser_fingerprint, other_patterns)
             risk_score == webdriver.risk_score + zero.risk_score + other_analyses.risk_score
                           + pattern_analysis.risk_score
             risk_indicators == webdriver.indicators \o zero.indicators
                                \o other_analyses.indicators \o pattern_analysis.indicators
         IN analyze_fingerprint(Min(risk_score, ScoreUnit), risk_indicators)

\* app.py line 96: the timings lie on both sides of the spread of 5 ms
BrowserFingerprints ==
    LET timing_values == {0, 10, 10 + UniformTimingSpread - 1, 10 + UniformTimingSpread}
        feature_counts == {0, 2}
    IN {EmptyDict}
       \cup [webdriver_detected : BOOLEAN,
             plugins_count : feature_counts, mime_types_count : feature_counts,
             fonts_count : feature_counts,
             canvas_render_time : timing_values, webgl_render_time : timing_values,
             plugin_enum_time : timing_values \ {10 + UniformTimingSpread - 1},
             font_enum_time : {0, 10}]

\* what the other steps of the analysis add
OtherAnalyses ==
    {[risk_score |-> 0, indicators |-> <<>>],
     [risk_score |-> FingerprintLowRisk, indicators |-> <<"headless_user_agent">>],
     [risk_score |-> FingerprintLowRisk, indicators |-> <<"alphabetical_feature_order">>]}

\* app.py lines 90-96: the request brings a browser fingerprint
SubmitFingerprint ==
    /\ pc = "idle"
    /\ \E bfp \in BrowserFingerprints :
        request' = [remote_addr |-> "127.0.0.1", data |-> [browserFingerprint |-> bfp]]
    /\ pc' = "fingerprint_received"
    /\ UNCHANGED <<ml_result, honeypot_result, fingerprint_result, final_decision,
                   metadata, events, honeypot_results>>
    /\ UNCHANGED <<all_results, final_prediction, canvas_signature_tracker, threads, submitted, model_loaded, scaler_loaded>>

\* app.py line 132: fingerprinting_module.analyze_fingerprint(metadata, browser_fingerprint)
AnalyzeFingerprint ==
    /\ pc = "fingerprint_received"
    /\ \E other_analyses \in OtherAnalyses, other_patterns \in OtherAnalyses :
        fingerprint_result' =
            analyze_fingerprint_request(Get(request.data, "browserFingerprint", EmptyDict),
                                        other_analyses, other_patterns)
    /\ pc' = "fingerprint_analyzed"
    /\ UNCHANGED <<ml_result, honeypot_result, final_decision, metadata, events,
                   honeypot_results>>
    /\ UNCHANGED service_vars

NextFingerprint == SubmitFingerprint \/ AnalyzeFingerprint

SpecFingerprint == Init /\ [][NextFingerprint]_vars

Next == Receive \/ Combine \/ SubmitForm \/ AnalyzeHoneypots \/ SubmitRequest \/ RunModules
    \/ ReceivePredict \/ PredictModules \/ GatewayCalls \/ GatewayCombine
    \/ StartCanvasAnalysis \/ CheckSignature \/ TestAddress \/ AppendAddress
    \/ InsertSignature \/ LoadTensorflowModel \/ MlPredict
    \/ SubmitFingerprint \/ AnalyzeFingerprint

Spec == Init /\ [][Next]_vars

\* ================================================================= claims
Returned == pc = "returned"

NormalPath == Returned /\ "decision_threshold" \in DOMAIN final_decision

FailurePath == Returned /\ "decision_threshold" \notin DOMAIN final_decision

WellFormedCall ==
    /\ ml_result \in MlWellFormed
    /\ honeypot_result \in HoneypotWellFormed
    /\ fingerprint_result \in FingerprintWellFormed

\* C1: for well-formed producer results, bot_probability is
\* min(1.0, B + F + H + 0.15*n), where each of B, F, H is the producer's
\* confidence (score for the fingerprint) times its weight when the producer's
\* detected flag is true, and 0 when the flag is false.
C1_WeightedFormula ==
    (Returned /\ WellFormedCall) =>
        LET B == IF ml_result.bot THEN ml_result.confidence * 35 ELSE 0
            F == IF fingerprint_result.analysis.is_bot_likely
                 THEN fingerprint_result.analysis.risk_score * 20 ELSE 0
            H == IF honeypot_result.honeypot_verdict.is_bot
                 THEN honeypot_result.honeypot_verdict.confidence * 45 ELSE 0
            n == honeypot_result.honeypot_summary.triggered_honeypots
            total == B + F + H + 150000 * n
        IN final_decision.bot_probability = (IF total > 1000000 THEN 1000000 ELSE total)

\* a producer with detected = false and a positive confidence, next to two
\* producers that do contribute, one trigger, below the cap
C1_Witness ==
    /\ Returned /\ WellFormedCall
    /\ ~ml_result.bot /\ ml_result.confidence > 0
    /\ fingerprint_result.analysis.is_bot_likely
    /\ fingerprint_result.analysis.risk_score > 0
    /\ honeypot_result.honeypot_verdict.is_bot
    /\ honeypot_result.honeypot_verdict.confidence > 0
    /\ honeypot_result.honeypot_summary.triggered_honeypots = 1
    /\ final_decision.bot_probability > 150000
    /\ final_decision.bot_probability < 1000000

\* the ways a producer result can be malformed
NullOrMissingRequired ==
    \/ IsNone(ml_result)
    \/ IsNone(honeypot_result)
    \/ ~Has(honeypot_result, "honeypot_verdict")
    \/ ~Has(honeypot_result.honeypot_verdict, "is_bot")
    \/ ~Has(honeypot_result.honeypot_verdict, "confidence")
    \/ (Has(honeypot_result, "honeypot_summary") /\ IsNone(honeypot_result.honeypot_summary))
    \/ IsNone(fingerprint_result)
    \/ ~Has(fingerprint_result, "verdict")
    \/ ~Has(fingerprint_result, "analysis")
    \/ ~Has(fingerprint_result.verdict, "is_suspicious")
    \/ ~Has(fingerprint_result.verdict, "confidence")

\* a key the claim names is missing and the code reads it with .get()
MissingDefaultedKey ==
    \/ (~IsNone(ml_result)) /\ {"bot", "confidence"} \ DOMAIN ml_result # {}
    \/ (~IsNone(honeypot_result)) /\ "honeypot_summary" \notin DOMAIN honeypot_result
    \/ Has(fingerprint_result, "analysis")
          /\ {"is_bot_likely", "risk_score"} \ DOMAIN fingerprint_result.analysis # {}

\* a dict completed with the defaults of the .get() calls
WithDefault(d, k, default) == [x \in (DOMAIN d) \cup {k} |-> IF x \in DOMAIN d THEN d[x] ELSE default]

Completed_ml == WithDefault(WithDefault(ml_result, "bot", FALSE), "confidence", 5000)

Completed_honeypot ==
    LET h == WithDefault(honeypot_result, "honeypot_summary", [triggered_honeypots |-> 0])
    IN [h EXCEPT !.honeypot_summary = WithDefault(@, "triggered_honeypots", 0)]

Completed_fingerprint ==
    [fingerprint_result EXCEPT !.analysis =
        WithDefault(WithDefault(WithDefault(@, "is_bot_likely", FALSE), "risk_score", 0),
                    "risk_indicators", <<>>)]

\* C2 (as stated): every malformed producer result, a missing optional key
\* included, yields is_bot = true and recommendation = block.
C2_FailClosedOnAnyMalformed ==
    (Returned /\ (NullOrMissingRequired \/ MissingDefaultedKey)) =>
        (final_decision.is_bot /\ final_decision.recommendation = "block")

\* C2 (amended): a null result, a missing honeypot_verdict / verdict / analysis
\* section or a missing is_bot / confidence / is_suspicious key of a verdict
\* section yields is_bot = true and recommendation = block; a missing bot,
\* ml confidence, is_bot_likely, risk_score, risk_indicators, honeypot_summary
\* or triggered_honeypots key is replaced by its default (false, 0.5, false, 0,
\* [], no triggers) and the verdict is the normal-path verdict of the completed
\* results.
C2_FailClosedOnRequired ==
    Returned =>
        /\ NullOrMissingRequired =>
              (final_decision.is_bot /\ final_decision.recommendation = "block"
               /\ FailurePath)
        /\ ~NullOrMissingRequired =>
              (NormalPath /\ final_decision =
                  NormalVerdict(Completed_ml, Completed_honeypot, Completed_fingerprint))

C2_Witness ==
    /\ Returned
    /\ ~Has(fingerprint_result, "analysis")
    /\ ml_result \in MlWellFormed /\ ~ml_result.bot
    /\ honeypot_result \in HoneypotWellFormed /\ ~honeypot_result.honeypot_verdict.is_bot
    /\ final_decision.recommendation = "block"

\* C3: when the fusion computation raises, the verdict returned is exactly
\* is_bot = true, bot_probability = 0.9, confidence = 0.8, risk_level = high,
\* recommendation = block.
C3_FixedFailureVerdict ==
    (Returned /\ NullOrMissingRequired) =>
        /\ final_decision.is_bot = TRUE
        /\ final_decision.bot_probability = 900000
        /\ final_decision.confidence = 800000
        /\ final_decision.risk_level = "high"
        /\ final_decision.recommendation = "block"

C3_Witness ==
    /\ Returned
    /\ IsNone(ml_result)
    /\ final_decision.bot_probability = 900000

\* C4: on the normal path is_bot = (bot_probability > decision_threshold),
\* strictly: equality gives is_bot = false.
C4_StrictThreshold ==
    NormalPath =>
        /\ final_decision.is_bot =
              (final_decision.bot_probability > final_decision.decision_threshold)
        /\ (final_decision.bot_probability = final_decision.decision_threshold
              => ~final_decision.is_bot)

C4_Witness ==
    /\ NormalPath
    /\ final_decision.bot_probability = final_decision.decision_threshold
    /\ ~final_decision.is_bot

SetMin(S) == CHOOSE x \in S : \A y \in S : x <= y

\* the rules of the adaptive threshold that apply to a call
ApplicableThresholds(n, indicators, risk_score) ==
    {400000}
    \cup (IF n = 1 THEN {250000} ELSE {})
    \cup (IF n >= 2 THEN {100000} ELSE {})
    \cup (IF InList("webdriver_detected", indicators) THEN {200000} ELSE {})
    \cup (IF risk_score > 8000 THEN {300000} ELSE {})

\* C5: decision_threshold is the minimum over the applicable rules; it does not
\* increase with the trigger count and the fingerprint rules never raise the
\* threshold set by the trigger-count rule.
C5_ThresholdIsMinimum ==
    NormalPath =>
        LET n == TriggeredHoneypots(honeypot_result)
            indicators == Get(fingerprint_result.analysis, "risk_indicators", <<>>)
            risk_score == Get(fingerprint_result.analysis, "risk_score", 0)
            byCount == SetMin(ApplicableThresholds(n, <<>>, 0))
        IN /\ final_decision.decision_threshold =
                 SetMin(ApplicableThresholds(n, indicators, risk_score))
           /\ final_decision.decision_threshold <= byCount
           /\ \A m \in 0..n :
                 final_decision.decision_threshold
                    <= DecisionThreshold(m, indicators, risk_score)

\* two triggers and the webdriver marker: the threshold stays at 0.1
C5_Witness ==
    /\ NormalPath
    /\ TriggeredHoneypots(honeypot_result) >= 2
    /\ InList("webdriver_detected", Get(fingerprint_result.analysis, "risk_indicators", <<>>))
    /\ final_decision.decision_threshold = 100000

\* C6: in every verdict, recommendation = block iff is_bot, allow otherwise.
C6_RecommendationIffIsBot ==
    Returned =>
        /\ final_decision.recommendation \in {"block", "allow"}
        /\ (final_decision.recommendation = "block") <=> final_decision.is_bot

C6_Witness ==
    /\ NormalPath
    /\ final_decision.is_bot
    /\ final_decision.risk_level = "low"
    /\ final_decision.recommendation = "block"

\* C7: 0 <= bot_probability <= 1 in every verdict, failure path included.
C7_ProbabilityInUnitInterval ==
    Returned =>
        /\ final_decision.bot_probability >= 0
        /\ final_decision.bot_probability <= 1000000

\* the sum before the cap exceeds 1.0
C7_Witness ==
    /\ NormalPath /\ WellFormedCall
    /\ RawBotProbability(ml_result, honeypot_result, fingerprint_result) > 1000000
    /\ final_decision.bot_probability = 1000000

\* C8: raising one producer's score or confidence, its detected flag being
\* true, never lowers bot_probability.
C8_Monotonic ==
    (NormalPath /\ WellFormedCall) =>
        \A c \in Scores :
            /\ (ml_result.bot /\ c >= ml_result.confidence) =>
                  combine_module_results([ml_result EXCEPT !.confidence = c],
                                         honeypot_result, fingerprint_result).bot_probability
                     >= final_decision.bot_probability
            /\ (honeypot_result.honeypot_verdict.is_bot
                  /\ c >= honeypot_result.honeypot_verdict.confidence) =>
                  combine_module_results(ml_result,
                        [honeypot_result EXCEPT !.honeypot_verdict.confidence = c],
                        fingerprint_result).bot_probability
                     >= final_decision.bot_probability
            /\ (fingerprint_result.analysis.is_bot_likely
                  /\ c >= fingerprint_result.analysis.risk_score) =>
                  combine_module_results(ml_result, honeypot_result,
                        [fingerprint_result EXCEPT !.analysis.risk_score = c]).bot_probability
                     >= final_decision.bot_probability
            /\ (fingerprint_result.analysis.is_bot_likely
                  /\ c >= fingerprint_result.verdict.confidence) =>
                  combine_module_results(ml_result, honeypot_result,
                        [fingerprint_result EXCEPT !.verdict.confidence = c]).bot_probability
                     >= final_decision.bot_probability

\* all three producers detect, below the cap, with room to raise each value
C8_Witness ==
    /\ NormalPath /\ WellFormedCall
    /\ ml_result.bot /\ ml_result.confidence \in 1..9999
    /\ honeypot_result.honeypot_verdict.is_bot
    /\ honeypot_result.honeypot_verdict.confidence \in 1..9999
    /\ fingerprint_result.analysis.is_bot_likely
    /\ fingerprint_result.analysis.risk_score \in 1..9999
    /\ final_decision.bot_probability \in 1..999999

\* C9: the bonus is added whenever n > 0 whatever the weighted term is; two
\* calls that differ only in the trigger count, n and n+1, differ by exactly
\* 0.15 before the cap, and the returned value is the cap of that sum.
C9_BonusIndependent ==
    (NormalPath /\ WellFormedCall) =>
        LET n == honeypot_result.honeypot_summary.triggered_honeypots
            more == [honeypot_result EXCEPT !.honeypot_summary.triggered_honeypots = n + 1]
            raw == RawBotProbability(ml_result, honeypot_result, fingerprint_result)
        IN /\ RawBotProbability(ml_result, more, fingerprint_result) - raw = 150000
           /\ final_decision.bot_probability = (IF raw > 1000000 THEN 1000000 ELSE raw)
           /\ combine_module_results(ml_result, more, fingerprint_result).bot_probability
                 = (IF raw + 150000 > 1000000 THEN 1000000 ELSE raw + 150000)

\* no trigger yet and a zero weighted term: the first trigger adds 0.15
C9_Witness ==
    /\ NormalPath /\ WellFormedCall
    /\ honeypot_result.honeypot_summary.triggered_honeypots = 0
    /\ final_decision.bot_probability = 0
    /\ combine_module_results(ml_result,
           [honeypot_result EXCEPT !.honeypot_summary.triggered_honeypots = 1],
           fingerprint_result).bot_probability = 150000

Analyzed == pc = "analyzed"

PrimaryFired ==
    \/ Filled(metadata.hidden_honeypot_field)
    \/ metadata.fake_submit_clicked
    \/ ((~metadata.js_enabled) /\ Filled(metadata.js_optional_field))

\* C10: when at least one primary trap fires, _analyze_honeypots returns
\* total_score = 1.0 whichever primary traps fired and whatever the secondary
\* traps and the number of events are.
C10_PrimaryGivesFullScore ==
    (Analyzed /\ PrimaryFired) => honeypot_results.total_score = 10000

\* one primary trap, both secondary traps and no event at all
C10_Witness ==
    /\ Analyzed
    /\ metadata.fake_submit_clicked
    /\ ~Filled(metadata.hidden_honeypot_field)
    /\ honeypot_results.secondary_honeypots_triggered = 2
    /\ events = <<>>
    /\ honeypot_results.total_score = 10000

\* ------------------------------------------------------------ C11 .. C14
Submitted == pc \in {"called", "returned"} /\ metadata # NoMetadata

Fused == pc = "returned" /\ metadata # NoMetadata

Fired(md) == {k \in DOMAIN TrapTriggered(md) : TrapTriggered(md)[k]}

StringFields(md) == md.hidden_honeypot_field # IntValue

EventsWellFormed(evs) == \A i \in DOMAIN evs : IsNumber(Get(evs[i], "timestamp", 0))

MlNotDetected(ml) == ~Get(ml, "bot", FALSE)

FingerprintNotDetected(fp) == ~Get(fp.analysis, "is_bot_likely", FALSE)

HoneypotTerm(hp) == B2I(hp.honeypot_verdict.is_bot) * hp.honeypot_verdict.confidence * 45

OnePrimaryOnly ==
    /\ Fused
    /\ StringFields(metadata)
    /\ Cardinality(Fired(metadata)) = 1
    /\ Fired(metadata) \subseteq {"hidden_field", "fake_submit", "optional_field"}
    /\ MlNotDetected(ml_result)
    /\ FingerprintNotDetected(fingerprint_result)

C12_ErrorResultFailOpen ==
    (Submitted /\ HoneypotsError(metadata) # NoError) =>
        /\ honeypot_result.analysis.honeypot_score = 0
        /\ InList("analysis_error", honeypot_result.analysis.threat_indicators)
        /\ ~honeypot_result.honeypot_verdict.is_bot
        /\ HoneypotTerm(honeypot_result) = 0

\* C13: when analyze returned its error result and the other two producers
\* report not detected, the fused verdict is is_bot = false, for every
\* fingerprint score and every fingerprint indicator list.
C13_FailedAnalysisCannotConvict ==
    (Fused /\ AnalyzeError(events, metadata) # NoError /\ MlNotDetected(ml_result)) =>
        /\ FingerprintNotDetected(fingerprint_result) => ~final_decision.is_bot
        /\ \A fp \in FingerprintWellFormed :
              FingerprintNotDetected(fp) =>
                  ~combine_module_results(ml_result, honeypot_result, fp).is_bot

\* the error result flags a bot with confidence 0.3: 0.135 stays under 0.4,
\* and under 0.2 for a fingerprint that lists webdriver_detected
C13_Witness ==
    /\ Fused /\ AnalyzeError(events, metadata) # NoError
    /\ MlNotDetected(ml_result) /\ FingerprintNotDetected(fingerprint_result)
    /\ honeypot_result.honeypot_verdict.is_bot
    /\ final_decision.bot_probability = 135000
    /\ final_decision.decision_threshold = 400000
    /\ ~final_decision.is_bot
    /\ \E fp \in FingerprintWellFormed :
          /\ FingerprintNotDetected(fp)
          /\ combine_module_results(ml_result, honeypot_result, fp).decision_threshold = 200000
          /\ ~combine_module_results(ml_result, honeypot_result, fp).is_bot

ProducersCarryFields ==
    /\ {"bot", "confidence"} \subseteq DOMAIN ml_result
    /\ "honeypot_verdict" \in DOMAIN honeypot_result
    /\ {"is_bot", "confidence"} \subseteq DOMAIN honeypot_result.honeypot_verdict
    /\ {"analysis", "verdict"} \subseteq DOMAIN fingerprint_result
    /\ {"is_bot_likely", "risk_score", "risk_indicators"} \subseteq DOMAIN fingerprint_result.analysis
    /\ {"is_suspicious", "confidence"} \subseteq DOMAIN fingerprint_result.verdict

\* C14: each producer catches its own exceptions and returns a result that
\* still carries the flag, score and confidence the fusion reads, so the
\* fusion of any combination of producer results, error results included,
\* completes on its normal path and never returns the fail-closed verdict.
C14_ProducerFailuresStayNormal ==
    /\ Submitted => ProducersCarryFields
    /\ Fused => /\ NormalPath
                /\ final_decision.decision_logic.kind = "weighted_probability"
                /\ final_decision
                      = NormalVerdict(ml_result, honeypot_result, fingerprint_result)

\* all three producers failed at once
C14_Witness ==
    /\ Fused
    /\ ml_result.model_status = "error"
    /\ AnalyzeError(events, metadata) # NoError
    /\ "honeypot_summary" \notin DOMAIN honeypot_result
    /\ InList("analysis_error", fingerprint_result.analysis.risk_indicators)
    /\ NormalPath

C16_NoExceptionText ==
    Returned =>
        /\ final_decision.decision_logic.kind = "weighted_probability"
        /\ "error" \notin DOMAIN final_decision.decision_logic

\* C17: every verdict of combine_module_results, the fail-closed one
\* included, carries is_bot, bot_probability, confidence, risk_level,
\* recommendation, decision_threshold and contributing_factors.
C17_AllFieldsPresent ==
    Returned =>
        {"is_bot", "bot_probability", "confidence", "risk_level", "recommendation",
         "decision_threshold", "contributing_factors"} \subseteq DOMAIN final_decision

SecondaryFired ==
    B2I(FocusOrderTriggered(metadata.focus_trail, metadata.expected_focus_order))
    + B2I(metadata.offscreen_mouse_triggered)

\* C20: with no primary trap and s >= 1 secondary traps the score of
\* _analyze_honeypots is min(1.0, 0.15*s + 0.3*s + e), e = 0.1 for an empty
\* event list and 0 otherwise; with no trap at all the score is e.
C20_SecondaryScore ==
    (Analyzed /\ ~PrimaryFired) =>
        LET s == SecondaryFired
            e == IF events = <<>> THEN 1000 ELSE 0
        IN honeypot_results.total_score
              = (IF s >= 1 THEN Min(10000, 1500 * s + 3000 * s + e) ELSE e)

\* both secondary traps and no event: min(1.0, 0.3 + 0.6 + 0.1) = 1.0
C20_Witness ==
    /\ Analyzed /\ ~PrimaryFired
    /\ SecondaryFired = 2
    /\ events = <<>>
    /\ honeypot_results.total_score = 10000

\* ------------------------------------------------------------ C18, C19
\* C18: whenever at least one of the five traps fires and the events are
\* well formed, analyze reports honeypot_verdict.is_bot = true and the fused
\* verdict is is_bot = true, whatever the other two producers report.
C18_AnyTrapConvicts ==
    (Fused /\ StringFields(metadata) /\ Fired(metadata) # {} /\ EventsWellFormed(events)) =>
        /\ honeypot_result.honeypot_verdict.is_bot
        /\ final_decision.is_bot

OneSecondaryOnly(evs, md, ml, fp) ==
    /\ AnalyzeError(evs, md) = NoError
    /\ EventsWellFormed(evs)
    /\ Cardinality(Fired(md)) = 1
    /\ Fired(md) \subseteq {"focus_order", "offscreen_mouse"}
    /\ MlNotDetected(ml)
    /\ FingerprintNotDetected(fp)

\* C19: secondary traps alone are not conclusive: among the well-formed
\* submissions in which one secondary trap fires, no primary trap fires and
\* the other two producers report not detected, there is one whose
\* end-to-end verdict is is_bot = false.
C19_SecondaryNotConclusive ==
    (Fused /\ OneSecondaryOnly(events, metadata, ml_result, fingerprint_result)) =>
        \E evs \in PipelineEvents, md \in PipelineMetadatas :
            \E ml \in MlProduced, fp \in FingerprintProduced :
                /\ OneSecondaryOnly(evs, md, ml, fp)
                /\ ~combine_module_results(ml, analyze(evs, md), fp).is_bot

\* ------------------------------------------------------------ C21 .. C30
\* every transition of the trail between two fields of the expected order
\* that jumps over ExtremeJump positions or more
AllJumps(focus_trail, expected_order) ==
    Cardinality({i \in 2..Len(focus_trail) :
        /\ InList(focus_trail[i], expected_order)
        /\ InList(focus_trail[i - 1], expected_order)
        /\ Abs(IndexOf(expected_order, focus_trail[i])
               - IndexOf(expected_order, focus_trail[i - 1])) >= 4})

\* every A -> B -> A pattern of the trail, A # B, among fields of the
\* expected order
AllBackAndForth(focus_trail, expected_order) ==
    Cardinality({i \in 3..Len(focus_trail) :
        /\ InList(focus_trail[i], expected_order)
        /\ InList(focus_trail[i - 1], expected_order)
        /\ focus_trail[i] = focus_trail[i - 2]
        /\ focus_trail[i] # focus_trail[i - 1]})

\* C21: the focus-order trap fires exactly when the focus history holds at
\* least 6 transitions and, counting every transition between fields of the
\* expected order, it has at least 3 immediate back-and-forth patterns or at
\* least 4 jumps over 4 or more positions of the expected order.
C21_FocusOrderExactly ==
    Analyzed =>
        (honeypot_results.detailed_results.focus_order.triggered
            <=> /\ Len(metadata.focus_trail) >= 6
                /\ \/ AllBackAndForth(metadata.focus_trail, metadata.expected_focus_order) >= 3
                   \/ AllJumps(metadata.focus_trail, metadata.expected_focus_order) >= 4)

OneMoreTrigger ==
    [honeypot_result EXCEPT !.honeypot_summary.triggered_honeypots = @ + 1]

\* C25: adding a honeypot trigger never turns a block into an allow: when
\* combine_module_results returns is_bot = true with the trigger count n, it
\* returns is_bot = true with n + 1 and everything else equal.
C25_MoreTriggersKeepBlock ==
    (NormalPath /\ WellFormedCall /\ final_decision.is_bot) =>
        combine_module_results(ml_result, OneMoreTrigger, fingerprint_result).is_bot

\* a block that one trigger earned under the lowered threshold 0.25 stays a
\* block with two triggers, with more probability and a lower threshold
C25_Witness ==
    /\ NormalPath /\ WellFormedCall /\ final_decision.is_bot
    /\ honeypot_result.honeypot_summary.triggered_honeypots = 1
    /\ final_decision.bot_probability < 400000
    /\ final_decision.decision_threshold = 250000
    /\ LET more == combine_module_results(ml_result, OneMoreTrigger, fingerprint_result)
       IN /\ more.is_bot
          /\ more.bot_probability = final_decision.bot_probability + 150000
          /\ more.decision_threshold = 100000

FingerprintAlone ==
    /\ NormalPath /\ WellFormedCall
    /\ ~ml_result.bot
    /\ ~honeypot_result.honeypot_verdict.is_bot
    /\ honeypot_result.honeypot_summary.triggered_honeypots = 0

\* C26: fingerprint evidence alone never yields a block: with the other two
\* producers not detecting and n = 0 the verdict is is_bot = false for every
\* fingerprint result, the one with is_bot_likely, risk_score 1.0 and
\* webdriver_detected included (0.20 is not greater than 0.2).
C26_FingerprintAloneAllows ==
    FingerprintAlone =>
        /\ ~final_decision.is_bot
        /\ final_decision.bot_probability <= 200000
        /\ final_decision.bot_probability <= final_decision.decision_threshold

\* the strongest fingerprint: the term meets the lowered threshold exactly
C26_Witness ==
    /\ FingerprintAlone
    /\ fingerprint_result.analysis.is_bot_likely
    /\ fingerprint_result.analysis.risk_score = 10000
    /\ InList("webdriver_detected", fingerprint_result.analysis.risk_indicators)
    /\ final_decision.bot_probability = 200000
    /\ final_decision.decision_threshold = 200000
    /\ ~final_decision.is_bot

CompletedAnalysis == Submitted /\ AnalyzeError(events, metadata) = NoError

\* C27: with no trap fired, analyze never reports is_bot = true on its
\* normal path: the combined score 0.8*honeypot_score + 0.2*(timing +
\* movement + metadata)/10 stays below the 0.3 suspicious threshold, so
\* outside the error result is_bot = true implies triggered_honeypots >= 1.
C27_NoTrapNoDetection ==
    CompletedAnalysis =>
        /\ Fired(metadata) = {} =>
              /\ honeypot_result.analysis.total_score < 3000
              /\ ~honeypot_result.honeypot_verdict.is_bot
              /\ honeypot_result.honeypot_summary.triggered_honeypots = 0
        /\ honeypot_result.honeypot_verdict.is_bot =>
              honeypot_result.honeypot_summary.triggered_honeypots >= 1

\* no trap, no event and a bot user agent: 0.8*0.1 + 0.2*0.1 = 0.10
C27_Witness ==
    /\ CompletedAnalysis
    /\ Fired(metadata) = {}
    /\ events = <<>>
    /\ InList("bot_user_agent", honeypot_result.analysis.threat_indicators)
    /\ honeypot_result.analysis.total_score = 1000
    /\ ~honeypot_result.honeypot_verdict.is_bot

RaisedAfterTraps ==
    /\ Fused
    /\ HoneypotsError(metadata) = NoError
    /\ AnalyzeError(events, metadata) # NoError

\* C28: when the event analysis raises after the traps were evaluated,
\* analyze returns the error result with honeypots_triggered = 0 and no
\* honeypot_summary, so the fusion applies no trigger bonus and no
\* trigger-based threshold even though primary traps fired.
C28_RaisedAnalysisLosesTraps ==
    RaisedAfterTraps =>
        /\ honeypot_result.honeypot_results.honeypots_triggered = 0
        /\ "honeypot_summary" \notin DOMAIN honeypot_result
        /\ final_decision.bot_probability
              = Min(1000000, B2I(ml_result.bot) * ml_result.confidence * 35
                             + B2I(fingerprint_result.analysis.is_bot_likely)
                               * fingerprint_result.analysis.risk_score * 20
                             + 3000 * 45)
        /\ final_decision.decision_threshold
              = (IF InList("webdriver_detected", fingerprint_result.analysis.risk_indicators)
                 THEN 200000
                 ELSE IF fingerprint_result.analysis.risk_score > 8000 THEN 300000
                 ELSE 400000)

\* three events with timestamps that are not numbers, the hidden field
\* filled: the verdict is an allow at 0.135 against 0.4
C28_Witness ==
    /\ RaisedAfterTraps
    /\ TimingError(events) # NoError
    /\ "hidden_field" \in Fired(metadata)
    /\ final_decision.bot_probability = 135000
    /\ final_decision.decision_threshold = 400000
    /\ ~final_decision.is_bot

Predicted == pc \in {"called", "returned"} /\ request # None

ReportsSecondaryTrap(honeypot_data) ==
    \/ Get(honeypot_data, "offscreen_mouse_triggered", FALSE)
    \/ FocusOrderTriggered(Get(honeypot_data, "focus_trail", <<>>),
                           Get(honeypot_data, "expected_focus_order", <<>>))

\* C22: for a /predict submission whose honeypot_data reports a secondary
\* trap (offscreen_mouse_triggered, or a focus_trail with an extreme pattern
\* and its expected_focus_order), the honeypot producer evaluates that trap:
\* secondary_honeypots_triggered >= 1 and the fusion sees n >= 1.
C22_SecondaryTrapEvaluated ==
    (Predicted /\ AnalyzeError(events, metadata) = NoError
        /\ ReportsSecondaryTrap(request.data.honeypot_data)) =>
        /\ honeypot_result.honeypot_results.secondary_honeypots_triggered >= 1
        /\ TriggeredHoneypots(honeypot_result) >= 1

GatewayReturned == pc = "gateway_returned"

ServiceFailed(service_name) == Has(all_results[service_name], "error")

\* C23: in the API gateway a producer whose service timed out or is
\* unreachable enters _combine_service_results as its conservative failure
\* default (detected = true), so the answer is a block; in particular with
\* all three services down the answer is not bot = false with allow.
C23_ServiceFailureIsDetected ==
    (GatewayReturned /\ \E name \in DOMAIN all_results : ServiceFailed(name)) =>
        /\ final_prediction.prediction[1].bot
        /\ final_prediction.enhanced_prediction.is_bot
        /\ final_prediction.enhanced_prediction.recommendation = "block"

Quiescent == \A t \in Threads : threads[t].pc = "idle"

Recorded(h) ==
    IF h \in DOMAIN canvas_signature_tracker THEN canvas_signature_tracker[h] ELSE <<>>

\* C24: under any interleaving of fingerprint analyses on the shared module
\* the list recorded for a signature holds exactly the distinct addresses
\* that submitted it: none twice and none lost, also when two submissions
\* from different addresses register the same new signature concurrently.
C24_TrackerExact ==
    Quiescent =>
        \A h \in CanvasHashes :
            /\ Cardinality(SeqRange(Recorded(h))) = Len(Recorded(h))
            /\ SeqRange(Recorded(h)) = {ip \in Addresses : <<h, ip>> \in submitted}

\* the module answers without the autoencoder: its fallback or one of its error defaults
HeuristicMode == pc = "ml_predicted" /\ ~(model_loaded /\ scaler_loaded)

\* C29: in heuristic fallback mode (autoencoder or scaler not loaded) predict
\* returns bot = true for every event list and every perturbation; the
\* heuristic score lies in [0.2, 1] and the raw error 300 + (0.5 - score) * 400
\* in [100, 420], below the threshold 500.
C29_HeuristicFallbackAlwaysBot ==
    HeuristicMode =>
        /\ ml_result.bot
        /\ ml_result.model_status \in {"heuristic_fallback", "error"}
        /\ ml_result.model_status = "heuristic_fallback" =>
              /\ ml_result.heuristic_details.bot_score \in MinBotScore..MaxBotScore
              /\ ml_result.processing_details.raw_reconstruction_error
                    = RawErrorBase + (RawErrorCentre - ml_result.heuristic_details.bot_score)
                                     * RawErrorPerHundredth
              /\ ml_result.processing_details.raw_reconstruction_error
                    \in RawError(MaxBotScore)..RawError(MinBotScore)
              /\ ml_result.processing_details.raw_reconstruction_error < threshold

\* the least suspicious movement with the lowest perturbation is still a bot
C29_Witness ==
    /\ HeuristicMode
    /\ Len(events) >= 2
    /\ ml_result.model_status = "heuristic_fallback"
    /\ ml_result.bot_indicators = <<>>
    /\ ml_result.heuristic_details.bot_score = HeuristicBaseScore - PerturbationDown
    /\ ml_result.bot

FingerprintAnalyzed == pc = "fingerprint_analyzed"

SubmittedFingerprint == Get(request.data, "browserFingerprint", EmptyDict)

PositiveTimings(browser_fingerprint) ==
    Cardinality({k \in {"canvas_render_time", "webgl_render_time", "plugin_enum_time",
                        "font_enum_time"} : Get(browser_fingerprint, k, 0) > 0})

\* C30: when exactly two of the four timing values of the browser fingerprint
\* are positive, analyze_fingerprint returns its error default (risk_score 0.5,
\* is_bot_likely true, risk_indicators [analysis_error]) whatever the rest of
\* the fingerprint is, webdriver_detected included; the fusion then sees neither
\* the webdriver_detected indicator nor a risk score above 0.8, so the adaptive
\* threshold is the one of the trigger count alone.
C30_TwoTimingsGiveErrorDefault ==
    (FingerprintAnalyzed /\ PositiveTimings(SubmittedFingerprint) = 2) =>
        /\ fingerprint_result = FingerprintErrorResult
        /\ fingerprint_result.analysis.risk_score = FingerprintErrorScore
        /\ fingerprint_result.analysis.is_bot_likely
        /\ fingerprint_result.analysis.risk_indicators = <<"analysis_error">>
        /\ fingerprint_result.analysis.risk_level = "medium"
        /\ ~InList("webdriver_detected", fingerprint_result.analysis.risk_indicators)
        /\ ~(fingerprint_result.analysis.risk_score > HighRiskScore)
        /\ \A triggered_honeypots \in 0..MaxTriggers :
              DecisionThreshold(triggered_honeypots,
                                fingerprint_result.analysis.risk_indicators,
                                fingerprint_result.analysis.risk_score)
              = DecisionThreshold(triggered_honeypots, <<>>, 0)

\* a fingerprint that reports webdriver_detected and has two positive timings
C30_Witness ==
    /\ FingerprintAnalyzed
    /\ PositiveTimings(SubmittedFingerprint) = 2
    /\ Get(SubmittedFingerprint, "webdriver_detected", FALSE)
    /\ Len(ZeroFeatureNames(SubmittedFingerprint)) >= 2
    /\ fingerprint_result = FingerprintErrorResult

====
